---- MODULE Spec2Model ----
(***************************************************************************)
(* The tool-provider runtime of the chatbot: the MCP connection pool       *)
(* (lib/mcp/connection-pool.ts), the subprocess client wrapper             *)
(* (lib/mcp/servers/google-analytics-client.ts) and the agent loop of the  *)
(* chat route (app/api/chat/route.ts and its multi-service version).       *)
(*                                                                         *)
(* Node runs every handler as a task that is atomic between two awaits,    *)
(* so an action of this module is the code between two await points.       *)
(* The clock counts sweep intervals: one tick is the 30 minutes of the     *)
(* cleanup timer, and the idle threshold of 60 minutes is two ticks; ms    *)
(* is the finer reading of Date.now() within a tick.                       *)
(***************************************************************************)
EXTENDS Integers, Sequences, FiniteSets, TLC

\* ---------------------------------------------------------------- bounds
NumCallers == 2
ConcurrentCalls == 5
MaxClients == 3
MaxTime == 3
MaxMs == 1
MaxShutdowns == 1
NumCredCalls == 2
SeqCredCalls == 1
MaxDays == 1
MaxRowIds == 4
MaxTools == 2
MaxFetches == 3

\* ------------------------------------------------------ program constants
\* connection-pool.ts:132, 60 * 60 * 1000 ms, in ticks of the 30-minute timer
idleThreshold == 2
\* chat route: const MAX_ITERATIONS = 5
MAX_ITERATIONS == 5

Users == {"u1", "u2"}
Services == {"google-analytics", "google-search-console"}

PoolCap == IF MaxClients > ConcurrentCalls THEN MaxClients ELSE ConcurrentCalls
ProcCap == IF NumCallers > ConcurrentCalls THEN NumCallers ELSE ConcurrentCalls
Procs == 1..ProcCap
ClientIds == 1..PoolCap
NoClient == 0
NoPath == ""

VARIABLES
  now,            \* new Date(), in ticks of the cleanup timer
  ms,             \* Date.now() within the tick
  connections,    \* MCPConnectionPool.connections, a Map in insertion order
  clients,        \* the GoogleAnalyticsMCPClient objects constructed so far
  nextClient,     \* how many client objects were constructed
  inheritedEnv,   \* process.env.GOOGLE_APPLICATION_CREDENTIALS, NoPath if unset
  rows,           \* the table mcp_connections
  files,          \* the secret files under mcp-credentials/, by path
  nextId,         \* how many row ids gen_random_uuid() has handed out
  credPc,         \* where each CredentialManager call stands
  cop,            \* the operation the call runs
  ckey,           \* its (userId, serverName)
  ctokens,        \* its tokens argument
  csnap,          \* the row its select returned, <<>> for none
  cutoff,         \* cleanupOldCredentials: cutoffDate
  purgeList,      \* cleanupOldCredentials: oldCredentials still to remove
  cresult,        \* how the call ended
  cstart,         \* history: the key's rows and file when the call started
  replaced,       \* history: keys whose row an upsert replaced
  pc,             \* where each request task stands
  cuser, cserver, \* the (userId, serverName) of the task's pool call
  held,           \* the client a task got from getConnection (or is creating)
  lastCall,       \* how the task's last callTool on the held client ended
  closeCalled,    \* the task's pending disconnect() did call client.close()
  userList,       \* closeUserConnections: the entries still to close
  sweepPc,        \* cleanupIdleConnections: "idle" or "evicting"
  toRemove,       \* cleanupIdleConnections: keys still to evict
  sweepClient,    \* the client whose disconnect() the sweep awaits
  sweepClose,     \* that disconnect() did call client.close()
  timerActive,    \* cleanupInterval # null
  shutPc,         \* shutdown(): "idle", "closing", "done"
  shutPending,    \* shutdown(): disconnect() promises not yet settled
  shutCount,      \* how many times a signal ran shutdown()
  prevRet,        \* history: what the task's previous getConnection returned
  dueClients,     \* history: clients of the entries idle at the last sweep
  sdAtStart,      \* history: shutdown had begun when the task's call started
  failedClients,  \* history: the clients whose connect() rejected
  closedClients,  \* history: the clients whose disconnect() an explicit close awaited
  variant,        \* which chat route runs: "single" (GA4 only) or "multi"
  runPc,          \* where the chat request stands
  listed,         \* what listTools() of each service's worker returns
  allTools,       \* ga4Tools / allTools, the catalog offered to the model
  mcpClients,     \* the services the request holds a client for
  chatUser,       \* user.id of the request's session
  enabled,        \* the services the request flags (ga4Connected, gscConnected)
  runClients,     \* the client object stored in mcpClients for each service
  iteration,      \* the agent loop's counter
  messages,       \* the message list of the request
  finalResponse,  \* finalResponse
  status,         \* HTTP status of the response, 0 while the request runs
  pendingCall,    \* the function name whose callTool is awaited
  callLog,        \* history: the callTool invocations issued
  toolFailures,   \* history: how many tool invocations failed
  llmFailed,      \* history: a language-model call of the request threw
  llmSeen,        \* history: the messages passed to the last model call
  llmCalls,       \* history: how many model calls the request issued
  llmFunctions    \* history: the last model call was given `functions`

credCallVars == <<credPc, cop, ckey, ctokens, csnap, cutoff, purgeList,
                  cresult, cstart, replaced>>

credVars == <<rows, files, nextId, credCallVars>>

poolVars == <<now, ms, connections, clients, nextClient, inheritedEnv, credVars,
              pc, cuser, cserver, held, lastCall, closeCalled, userList,
              sweepPc, toRemove, sweepClient, sweepClose, timerActive,
              shutPc, shutPending, shutCount, prevRet, dueClients, sdAtStart,
              failedClients, closedClients>>

requestVars == <<chatUser, enabled, runClients>>
llmVars == <<llmSeen, llmCalls, llmFunctions>>

agentVars == <<listed, requestVars, variant, runPc, allTools, mcpClients, iteration,
               messages, finalResponse, status, pendingCall, callLog, toolFailures,
               llmFailed, llmVars>>

vars == <<poolVars, agentVars>>

\* ------------------------------------------------------------ the Map
\* a key that leaves the user out
ServiceKey(userId, serverName) == serverName

\* getConnectionKey: `${userId}:${serverName}`
getConnectionKey(userId, serverName) == userId \o ":" \o serverName

KeyIndex(conns, key) ==
  IF \E i \in 1..Len(conns) : conns[i].key = key
  THEN CHOOSE i \in 1..Len(conns) : conns[i].key = key
  ELSE 0

MapHas(conns, key) == KeyIndex(conns, key) # 0
MapGet(conns, key) == conns[KeyIndex(conns, key)]
\* Map.set keeps the place of a key that is present and appends a new one
MapSet(conns, key, entry) ==
  IF MapHas(conns, key)
  THEN [conns EXCEPT ![KeyIndex(conns, key)] = entry]
  ELSE Append(conns, entry)
MapDelete(conns, key) == SelectSeq(conns, LAMBDA e : e.key # key)

\* ------------------------------------------------------------ the client
FreshClient ==
  [isConnected |-> FALSE, client |-> FALSE, cachedTools |-> <<>>, fetches |-> 0,
   credentialsPath |-> NoPath, launchPath |-> NoPath, worker |-> "none",
   userId |-> "", serverName |-> ""]

\* path.join(tempDir, `ga4-mcp-creds-${Date.now()}.json`)
TempCredentialsPath(t) ==
  "/tmp/ga4-mcp-creds-" \o ToString(t[1]) \o "_" \o ToString(t[2]) \o ".json"

\* env = { GOOGLE_APPLICATION_CREDENTIALS: credentialsPath, ..., ...process.env }:
\* the spread of process.env comes last and wins
WorkerEnvPath(credentialsPath, inherited) ==
  IF inherited # NoPath THEN inherited ELSE credentialsPath

\* connect(), up to its await of client.connect(transport): the credentials
\* file is written, the transport is built and the worker is spawned
ConnectBegin(c, userId, serverName, t, inherited) ==
  [c EXCEPT !.client = TRUE,
            !.credentialsPath = TempCredentialsPath(t),
            !.launchPath = WorkerEnvPath(TempCredentialsPath(t), inherited),
            !.worker = "running",
            !.userId = userId, !.serverName = serverName]

\* refreshTools(): this.cachedTools = (await this.client.listTools()).tools
RefreshTools(c) ==
  [c EXCEPT !.cachedTools = listed[c.serverName], !.fetches = c.fetches + 1]

\* connect(), after the handshake and refreshTools() succeeded
ConnectOk(c) == RefreshTools([c EXCEPT !.isConnected = TRUE])

\* a catch block that leaves the flag set
ConnectFailedStaysConnected(c) == [c EXCEPT !.isConnected = TRUE]

\* connect(), the catch block: isConnected = false, the error is rethrown;
\* this.client and the spawned worker are left as they are
ConnectFailed(c) == [c EXCEPT !.isConnected = FALSE]

\* disconnect() after client.close() resolved (or with no client to close)
DisconnectOk(c) ==
  [c EXCEPT !.client = FALSE, !.isConnected = FALSE, !.cachedTools = <<>>,
            !.worker = IF c.worker = "running" THEN "exited" ELSE c.worker]

\* callTool/listTools guard: if (!this.isConnected || !this.client) throw
Usable(c) == c.isConnected /\ c.client

Spawned == {c \in ClientIds : clients[c].worker # "none"}
Running == {c \in ClientIds : clients[c].worker = "running"}
InPool(c) == \E i \in 1..Len(connections) : connections[i].client = c

\* ------------------------------------------------- the credential store
\* path.join(credentialsDir, `${userId}-${serverName}.json`)
CredentialsPathOf(userId, serverName) ==
  "mcp-credentials/" \o userId \o "-" \o serverName \o ".json"

CredPaths == {CredentialsPathOf(u, s) : u \in Users, s \in Services}

NoFile == [exists |-> FALSE, refresh_token |-> "", access_token |-> ""]

\* credentialsData of createCredentials; an absent access_token reads ""
CredentialsData(tokens) ==
  [exists |-> TRUE, refresh_token |-> tokens.refresh_token,
   access_token |-> tokens.access_token]

\* updatedData of updateCredentials: {...currentData, ...(tokens.access_token
\* && {access_token}), ...(tokens.refresh_token && {refresh_token})}
UpdatedData(currentData, tokens) ==
  [currentData EXCEPT
     !.access_token = IF tokens.access_token # "" THEN tokens.access_token ELSE @,
     !.refresh_token = IF tokens.refresh_token # "" THEN tokens.refresh_token ELSE @]

\* fs.unlinkSync(path)
Unlink(fs, path) == [fs EXCEPT ![path] = NoFile]

\* .eq('user_id', userId).eq('server_name', serverName)
RowsOf(rs, userId, serverName) ==
  {r \in rs : r.user_id = userId /\ r.server_name = serverName}

NewRow(id, userId, serverName, tokens, t) ==
  [id |-> id, user_id |-> userId, server_name |-> serverName,
   credentials_path |-> CredentialsPathOf(userId, serverName),
   access_token |-> tokens.access_token, refresh_token |-> tokens.refresh_token,
   is_active |-> TRUE, updated_at |-> t]

\* an insert that takes no notice of the conflict target
InsertRow(rs, id, userId, serverName, tokens, t) ==
  rs \cup {NewRow(id, userId, serverName, tokens, t)}

\* .upsert({...}, {onConflict: 'user_id,server_name'}) on a table with
\* UNIQUE(user_id, server_name): a row of the key is updated in place and
\* keeps its id, otherwise a row is inserted
Upsert(rs, id, userId, serverName, tokens, t) ==
  IF RowsOf(rs, userId, serverName) # {}
  THEN (rs \ RowsOf(rs, userId, serverName))
       \cup {NewRow(r.id, userId, serverName, tokens, t) :
               r \in RowsOf(rs, userId, serverName)}
  ELSE rs \cup {NewRow(id, userId, serverName, tokens, t)}

\* .select('*')...eq('is_active', true).single(): the row, or an error
\* (read as null) unless exactly one row matches
SelectActive(rs, userId, serverName) ==
  LET m == {r \in RowsOf(rs, userId, serverName) : r.is_active} IN
  IF Cardinality(m) = 1 THEN <<CHOOSE r \in m : TRUE>> ELSE <<>>

\* .update({is_active: false, updated_at: new Date()}).eq(user_id).eq(server_name)
DeactivateRows(rs, userId, serverName, t) ==
  {IF r \in RowsOf(rs, userId, serverName)
   THEN [r EXCEPT !.is_active = FALSE, !.updated_at = t] ELSE r : r \in rs}

\* .update(updateData).eq(user_id).eq(server_name)
UpdateRows(rs, userId, serverName, tokens, t) ==
  {IF r \in RowsOf(rs, userId, serverName)
   THEN [r EXCEPT
           !.updated_at = t,
           !.access_token = IF tokens.access_token # "" THEN tokens.access_token ELSE @,
           !.refresh_token = IF tokens.refresh_token # "" THEN tokens.refresh_token ELSE @]
   ELSE r : r \in rs}

\* .delete().eq(user_id).eq(server_name)
DeleteRows(rs, userId, serverName) == rs \ RowsOf(rs, userId, serverName)

\* .delete().eq('id', cred.id)
DeleteById(rs, id) == {r \in rs : r.id # id}

\* .select('*').eq('is_active', false).lt('updated_at', cutoffDate)
SelectStale(rs, cutoffDate) ==
  {r \in rs : ~r.is_active /\ r.updated_at < cutoffDate}

RECURSIVE SetToSeq(_)
SetToSeq(S) ==
  IF S = {} THEN <<>>
  ELSE LET x == CHOOSE x \in S : TRUE IN <<x>> \o SetToSeq(S \ {x})

\* getCredentials as one step: the active row whose file exists, or null
\* after deactivating the rows of a key whose file is missing
CredentialsFound(rs, fs, userId, serverName) ==
  /\ SelectActive(rs, userId, serverName) # <<>>
  /\ fs[SelectActive(rs, userId, serverName)[1].credentials_path].exists

RowsAfterGet(rs, fs, userId, serverName, t) ==
  IF /\ SelectActive(rs, userId, serverName) # <<>>
     /\ ~fs[SelectActive(rs, userId, serverName)[1].credentials_path].exists
  THEN DeactivateRows(rs, userId, serverName, t)
  ELSE rs

\* ------------------------------------------------------ the pool: lookups
\* if (existing && existing.isConnected)
CacheHit(conns, key) == MapHas(conns, key) /\ MapGet(conns, key).isConnected

\* a cache hit that leaves the timestamp alone
NoTouch(entry, t) == entry

\* existing.lastUsed = new Date()
Touch(entry, t) == [entry EXCEPT !.lastUsed = t]

\* idleTime > idleThreshold
IsIdle(entry, t) == t - entry.lastUsed > idleThreshold

Key(p) == getConnectionKey(cuser[p], cserver[p])

\* Date.now()
DateNow == <<now, ms>>

\* The entries of a key's callers: an eviction or a close of `key` ends the
\* succession of calls on it
ForgetKey(ret, key) ==
  [q \in Procs |-> IF Key(q) = key THEN NoClient ELSE ret[q]]

RECURSIVE SkipAbsent(_, _)
\* for (const key of toRemove) { const entry = this.connections.get(key); if (entry) ...
SkipAbsent(conns, keys) ==
  IF keys = <<>> THEN <<>>
  ELSE IF MapHas(conns, Head(keys)) THEN keys
  ELSE SkipAbsent(conns, Tail(keys))

RECURSIVE KeysOf(_)
KeysOf(entries) ==
  IF entries = <<>> THEN <<>> ELSE <<Head(entries).key>> \o KeysOf(Tail(entries))

\* the object made last is taken again
LastClient(n) == IF n = 0 THEN 1 ELSE n

\* new GoogleAnalyticsMCPClient(): an object that did not exist before
NewClient(n) == n + 1

\* ----------------------------------------------------------- getConnection
callerVars == <<pc, cuser, cserver, held, lastCall, closeCalled, userList>>
sweepVars == <<sweepPc, toRemove, sweepClient, sweepClose>>
shutVars == <<shutPc, shutPending, shutCount, timerActive>>

\* getConnection, lines 47-57: the lookup, and on a miss the call of
\* CredentialManager.getCredentials
GetConnectionStart(p, userId, serverName) ==
  LET key == getConnectionKey(userId, serverName) IN
  /\ pc[p] = "idle"
  /\ cuser' = [cuser EXCEPT ![p] = userId]
  /\ cserver' = [cserver EXCEPT ![p] = serverName]
  /\ sdAtStart' = [sdAtStart EXCEPT ![p] = (shutPc # "idle")]
  /\ IF CacheHit(connections, key)
     THEN /\ connections' = MapSet(connections, key,
                               Touch(MapGet(connections, key), now))
          /\ held' = [held EXCEPT ![p] = MapGet(connections, key).client]
          /\ pc' = [pc EXCEPT ![p] = "holding"]
          /\ prevRet' = [prevRet EXCEPT ![p] = MapGet(connections, key).client]
     ELSE /\ pc' = [pc EXCEPT ![p] = "creds"]
          /\ held' = [held EXCEPT ![p] = NoClient]
          /\ prevRet' = [prevRet EXCEPT ![p] = IF key = Key(p) THEN @ ELSE NoClient]
          /\ UNCHANGED connections
  /\ UNCHANGED <<agentVars, closedClients, failedClients, now, ms, clients, nextClient, inheritedEnv, credVars, lastCall,
                 closeCalled, userList, sweepVars, shutVars, dueClients>>

\* getConnection, lines 57-70: getCredentials resolved; without credentials
\* the call throws, with them a client is constructed and connect() runs up
\* to its await of the handshake
CredentialsResolved(p, cap) ==
  /\ pc[p] = "creds"
  /\ rows' = RowsAfterGet(rows, files, cuser[p], cserver[p], now)
  /\ IF ~CredentialsFound(rows, files, cuser[p], cserver[p])
     THEN /\ pc' = [pc EXCEPT ![p] = "idle"]
          /\ sdAtStart' = [sdAtStart EXCEPT ![p] = FALSE]
          /\ UNCHANGED <<clients, nextClient, held>>
     ELSE /\ nextClient < cap
          /\ nextClient' = nextClient + 1
          /\ clients' = [clients EXCEPT ![NewClient(nextClient)] =
                           ConnectBegin(@, cuser[p], cserver[p], DateNow, inheritedEnv)]
          /\ held' = [held EXCEPT ![p] = NewClient(nextClient)]
          /\ pc' = [pc EXCEPT ![p] = "connecting"]
          /\ UNCHANGED sdAtStart
  /\ UNCHANGED <<agentVars, closedClients, failedClients, now, ms, connections, inheritedEnv, files, nextId,
                 credCallVars, cuser, cserver, lastCall, closeCalled, userList,
                 sweepVars, shutVars, prevRet, dueClients>>

\* getConnection, lines 66-83: connect() resolved; the entry is stored and
\* the client returned
ConnectDone(p) ==
  /\ pc[p] = "connecting"
  /\ clients' = [clients EXCEPT ![held[p]] = ConnectOk(@)]
  /\ connections' = MapSet(connections, Key(p),
        [key |-> Key(p), client |-> held[p], userId |-> cuser[p],
         serverName |-> cserver[p], lastUsed |-> now, isConnected |-> TRUE])
  /\ pc' = [pc EXCEPT ![p] = "holding"]
  /\ prevRet' = [prevRet EXCEPT ![p] = held[p]]
  /\ UNCHANGED <<agentVars, closedClients, failedClients, now, ms, nextClient, inheritedEnv, credVars, cuser, cserver, held,
                 lastCall, closeCalled, userList, sweepVars, shutVars, dueClients, sdAtStart>>

\* getConnection, lines 84-87: connect() rejected (spawn, handshake or
\* listTools failed); nothing is stored and the error is rethrown
ConnectError(p) ==
  /\ pc[p] = "connecting"
  /\ clients' = [clients EXCEPT ![held[p]] = ConnectFailed(@)]
  /\ failedClients' = failedClients \cup {held[p]}
  /\ held' = [held EXCEPT ![p] = NoClient]
  /\ pc' = [pc EXCEPT ![p] = "idle"]
  /\ sdAtStart' = [sdAtStart EXCEPT ![p] = FALSE]
  /\ UNCHANGED <<agentVars, closedClients, now, ms, connections, nextClient, inheritedEnv, credVars, cuser,
                 cserver, lastCall, closeCalled, userList, sweepVars, shutVars,
                 prevRet, dueClients>>

\* callTool (and listTools) on the client the request holds: the guard
\* throws when the client is not connected; otherwise the call goes to the
\* worker, which answers or fails
CallToolResult(c, workerAnswers) ==
  IF ~Usable(c) THEN "NotConnected"
  ELSE IF workerAnswers /\ c.worker = "running" THEN "ok"
  ELSE "InvocationError"

CallTool(p, workerAnswers) ==
  /\ pc[p] = "holding"
  /\ lastCall' = [lastCall EXCEPT ![p] = CallToolResult(clients[held[p]], workerAnswers)]
  /\ UNCHANGED <<agentVars, closedClients, failedClients, now, ms, connections, clients, nextClient, inheritedEnv, credVars,
                 pc, cuser, cserver, held, closeCalled, userList, sweepVars,
                 shutVars, prevRet, dueClients, sdAtStart>>

\* listTools on the client the request holds: the guard, then the cached
\* catalog, which is fetched again when it is empty
ListTools(p, workerAnswers) ==
  LET c == clients[held[p]] IN
  /\ pc[p] = "holding"
  /\ IF ~Usable(c)
     THEN /\ lastCall' = [lastCall EXCEPT ![p] = "NotConnected"]
          /\ UNCHANGED clients
     ELSE IF Len(c.cachedTools) # 0
     THEN /\ lastCall' = [lastCall EXCEPT ![p] = "ok"]
          /\ UNCHANGED clients
     ELSE /\ c.fetches < MaxFetches
          /\ IF workerAnswers /\ c.worker = "running"
             THEN /\ clients' = [clients EXCEPT ![held[p]] = RefreshTools(@)]
                  /\ lastCall' = [lastCall EXCEPT ![p] = "ok"]
             ELSE /\ clients' = [clients EXCEPT ![held[p]].fetches = @ + 1]
                  /\ lastCall' = [lastCall EXCEPT ![p] = "InvocationError"]
  /\ UNCHANGED <<agentVars, closedClients, failedClients, now, ms, connections, nextClient,
                 inheritedEnv, credVars, pc, cuser, cserver, held, closeCalled,
                 userList, sweepVars, shutVars, prevRet, dueClients, sdAtStart>>

\* the worker process of a connected client exits; the client object has no
\* handler for the transport's close or error
WorkerExits(c) ==
  /\ clients[c].isConnected
  /\ clients[c].worker = "running"
  /\ clients' = [clients EXCEPT ![c].worker = "exited"]
  /\ UNCHANGED <<agentVars, closedClients, failedClients, now, ms, connections, nextClient,
                 inheritedEnv, credVars, callerVars, sweepVars, shutVars, prevRet,
                 dueClients, sdAtStart>>

\* the request is done with the client it held (the route returned)
Release(p) ==
  /\ pc[p] = "holding"
  /\ pc' = [pc EXCEPT ![p] = "idle"]
  /\ held' = [held EXCEPT ![p] = NoClient]
  /\ lastCall' = [lastCall EXCEPT ![p] = "none"]
  /\ sdAtStart' = [sdAtStart EXCEPT ![p] = FALSE]
  /\ UNCHANGED <<agentVars, closedClients, failedClients, now, ms, connections, clients, nextClient, inheritedEnv, credVars,
                 cuser, cserver, closeCalled, userList, sweepVars, shutVars,
                 prevRet, dueClients>>

\* ------------------------------------------------- closeConnection
\* closeConnection, lines 94-99: the entry is looked up and, if present, its
\* client's disconnect() runs up to its await of client.close()
CloseConnectionStart(p, userId, serverName) ==
  LET key == getConnectionKey(userId, serverName) IN
  /\ pc[p] = "idle"
  /\ MapHas(connections, key)
  /\ cuser' = [cuser EXCEPT ![p] = userId]
  /\ cserver' = [cserver EXCEPT ![p] = serverName]
  /\ held' = [held EXCEPT ![p] = MapGet(connections, key).client]
  /\ closeCalled' = [closeCalled EXCEPT
                       ![p] = clients[MapGet(connections, key).client].client]
  /\ pc' = [pc EXCEPT ![p] = "closing"]
  /\ prevRet' = [prevRet EXCEPT ![p] = NoClient]
  /\ UNCHANGED <<agentVars, closedClients, failedClients, now, ms, connections, clients, nextClient, inheritedEnv, credVars,
                 lastCall, userList, sweepVars, shutVars, dueClients, sdAtStart>>

\* closeConnection, lines 99-105: disconnect() settled (ok, or client.close()
\* threw and the error is logged); the key is deleted either way
CloseConnectionDone(p, ok) ==
  /\ pc[p] = "closing"
  /\ ok \/ closeCalled[p]
  /\ clients' = IF ok THEN [clients EXCEPT ![held[p]] = DisconnectOk(@)] ELSE clients
  /\ connections' = MapDelete(connections, Key(p))
  /\ prevRet' = ForgetKey(prevRet, Key(p))
  /\ pc' = [pc EXCEPT ![p] = "idle"]
  /\ held' = [held EXCEPT ![p] = NoClient]
  /\ closeCalled' = [closeCalled EXCEPT ![p] = FALSE]
  /\ closedClients' = closedClients \cup {held[p]}
  /\ UNCHANGED <<agentVars, failedClients, now, ms, nextClient, inheritedEnv, credVars, cuser, cserver,
                 lastCall, userList, sweepVars, shutVars, dueClients, sdAtStart>>

\* ------------------------------------------------- closeUserConnections
\* closeUserConnections, lines 112-117: the user's entries are snapshotted and
\* the first one's disconnect() is awaited
CloseUserStart(p, userId) ==
  LET mine == SelectSeq(connections, LAMBDA e : e.userId = userId) IN
  /\ pc[p] = "idle"
  /\ mine # <<>>
  /\ userList' = [userList EXCEPT ![p] = mine]
  /\ closeCalled' = [closeCalled EXCEPT ![p] = clients[Head(mine).client].client]
  /\ pc' = [pc EXCEPT ![p] = "closingUser"]
  /\ prevRet' = [prevRet EXCEPT ![p] = NoClient]
  /\ UNCHANGED <<agentVars, closedClients, failedClients, now, ms, connections, clients, nextClient, inheritedEnv, credVars,
                 cuser, cserver, held, lastCall, sweepVars, shutVars, dueClients,
                 sdAtStart>>

\* closeUserConnections, lines 117-122: one disconnect() settled, its key is
\* deleted and the next snapshotted entry's disconnect() is awaited
CloseUserStep(p, ok) ==
  /\ pc[p] = "closingUser"
  /\ ok \/ closeCalled[p]
  /\ LET e == Head(userList[p])
         rest == Tail(userList[p])
         cl == IF ok THEN [clients EXCEPT ![e.client] = DisconnectOk(@)] ELSE clients
     IN
     /\ clients' = cl
     /\ closedClients' = closedClients \cup {e.client}
     /\ connections' = MapDelete(connections, e.key)
     /\ prevRet' = ForgetKey(prevRet, e.key)
     /\ userList' = [userList EXCEPT ![p] = rest]
     /\ IF rest = <<>>
        THEN /\ pc' = [pc EXCEPT ![p] = "idle"]
             /\ closeCalled' = [closeCalled EXCEPT ![p] = FALSE]
        ELSE /\ pc' = pc
             /\ closeCalled' = [closeCalled EXCEPT ![p] = cl[Head(rest).client].client]
  /\ UNCHANGED <<agentVars, failedClients, now, ms, nextClient, inheritedEnv, credVars, cuser, cserver, held,
                 lastCall, sweepVars, shutVars, dueClients, sdAtStart>>

\* ------------------------------------------------- cleanupIdleConnections
\* lines 131-148, run by the timer: the idle keys are collected and the first
\* one's disconnect() is awaited
SweepStart(t) ==
  LET idle == KeysOf(SelectSeq(connections, LAMBDA e : IsIdle(e, t))) IN
  /\ dueClients' = {connections[i].client : i \in
                      {j \in 1..Len(connections) :
                         t - connections[j].lastUsed > idleThreshold}}
  /\ IF idle = <<>>
     THEN UNCHANGED sweepVars
     ELSE /\ sweepPc' = "evicting"
          /\ toRemove' = idle
          /\ sweepClient' = MapGet(connections, Head(idle)).client
          /\ sweepClose' = clients[MapGet(connections, Head(idle)).client].client

\* 30 minutes pass; setInterval runs the sweep while the timer is set
Tick ==
  /\ now < MaxTime
  /\ sweepPc = "idle"
  /\ now' = now + 1
  /\ ms' = 0
  /\ IF timerActive
     THEN SweepStart(now + 1)
     ELSE UNCHANGED <<sweepVars, dueClients>>
  /\ UNCHANGED <<agentVars, closedClients, failedClients, connections, clients, nextClient, inheritedEnv,
                 credVars, callerVars, shutVars, prevRet, sdAtStart>>

\* lines 148-155: the awaited disconnect() settled, the key is deleted, and the
\* loop goes on to the next key that still has an entry
SweepStep(ok) ==
  /\ sweepPc = "evicting"
  /\ ok \/ sweepClose
  /\ LET key == Head(toRemove)
         cl == IF ok THEN [clients EXCEPT ![sweepClient] = DisconnectOk(@)] ELSE clients
         conns == MapDelete(connections, key)
         rest == SkipAbsent(conns, Tail(toRemove))
     IN
     /\ clients' = cl
     /\ connections' = conns
     /\ prevRet' = ForgetKey(prevRet, key)
     /\ toRemove' = rest
     /\ IF rest = <<>>
        THEN /\ sweepPc' = "idle"
             /\ sweepClient' = NoClient
             /\ sweepClose' = FALSE
        ELSE /\ sweepPc' = "evicting"
             /\ sweepClient' = MapGet(conns, Head(rest)).client
             /\ sweepClose' = cl[MapGet(conns, Head(rest)).client].client
  /\ UNCHANGED <<agentVars, closedClients, failedClients, now, ms, nextClient, inheritedEnv, credVars, callerVars, shutVars,
                 dueClients, sdAtStart>>

\* ------------------------------------------------- shutdown
\* shutdown, lines 194-207, run by SIGTERM/SIGINT: the timer is cleared and
\* disconnect() is called on every entry's client
ShutdownStart ==
  /\ shutPc # "closing"
  /\ shutCount < MaxShutdowns
  /\ shutCount' = shutCount + 1
  /\ timerActive' = FALSE
  /\ shutPc' = "closing"
  /\ shutPending' = {[client |-> connections[i].client,
                      closeCalled |-> clients[connections[i].client].client] :
                       i \in 1..Len(connections)}
  /\ UNCHANGED <<agentVars, closedClients, failedClients, now, ms, connections, clients, nextClient, inheritedEnv, credVars,
                 callerVars, sweepVars, prevRet, dueClients, sdAtStart>>

\* one of shutdown's disconnect() promises settled (a rejection is logged)
ShutdownSettle(d, ok) ==
  /\ shutPc = "closing"
  /\ d \in shutPending
  /\ ok \/ d.closeCalled
  /\ clients' = IF ok THEN [clients EXCEPT ![d.client] = DisconnectOk(@)] ELSE clients
  /\ shutPending' = shutPending \ {d}
  /\ UNCHANGED <<agentVars, closedClients, failedClients, now, ms, connections, nextClient, inheritedEnv, credVars, callerVars,
                 sweepVars, shutPc, shutCount, timerActive,
                 prevRet, dueClients, sdAtStart>>

\* shutdown, lines 207-210: Promise.all resolved; connections.clear()
ShutdownFinish ==
  /\ shutPc = "closing"
  /\ shutPending = {}
  /\ connections' = <<>>
  /\ prevRet' = [q \in Procs |-> NoClient]
  /\ shutPc' = "done"
  /\ UNCHANGED <<agentVars, closedClients, failedClients, now, ms, clients, nextClient, inheritedEnv, credVars, callerVars,
                 sweepVars, shutPending, shutCount, timerActive,
                 dueClients, sdAtStart>>

\* ------------------------------------------------- CredentialManager
CredCalls == 1..(IF NumCredCalls > SeqCredCalls THEN NumCredCalls ELSE SeqCredCalls)

nonCredVars == <<agentVars, closedClients, failedClients, now, ms, connections, clients, nextClient, inheritedEnv,
                 callerVars, sweepVars, shutVars, prevRet, dueClients, sdAtStart>>

NoTokens == [access_token |-> "", refresh_token |-> ""]

\* the key's rows and file, remembered when a call starts
KeyState(rs, fs, userId, serverName) ==
  [rows |-> RowsOf(rs, userId, serverName),
   file |-> fs[CredentialsPathOf(userId, serverName)]]

\* a call starts and runs up to its first await, where it is at `next`
Begins(cp, op, userId, serverName, tokens, next) ==
  /\ credPc[cp] = "idle"
  /\ credPc' = [credPc EXCEPT ![cp] = next]
  /\ cop' = [cop EXCEPT ![cp] = op]
  /\ ckey' = [ckey EXCEPT ![cp] = <<userId, serverName>>]
  /\ ctokens' = [ctokens EXCEPT ![cp] = tokens]
  /\ cstart' = [cstart EXCEPT ![cp] = KeyState(rows, files, userId, serverName)]
  /\ cresult' = [cresult EXCEPT ![cp] = "pending"]
  /\ UNCHANGED <<csnap, cutoff, purgeList>>

\* the call goes on to its next await
Goes(cp, next) ==
  /\ credPc' = [credPc EXCEPT ![cp] = next]
  /\ UNCHANGED <<cop, ckey, ctokens, csnap, cutoff, purgeList, cresult, cstart>>

\* the call returns or throws; its locals are gone
Ends(cp, result) ==
  /\ credPc' = [credPc EXCEPT ![cp] = "idle"]
  /\ cresult' = [cresult EXCEPT ![cp] = result]
  /\ ctokens' = [ctokens EXCEPT ![cp] = NoTokens]
  /\ csnap' = [csnap EXCEPT ![cp] = <<>>]
  /\ cutoff' = [cutoff EXCEPT ![cp] = 0]
  /\ purgeList' = [purgeList EXCEPT ![cp] = <<>>]
  /\ cstart' = [cstart EXCEPT ![cp] = [rows |-> {}, file |-> NoFile]]
  /\ UNCHANGED <<cop, ckey>>

\* createCredentials, lines 47-82: the file is written and the upsert is
\* sent; when writeFileSync throws the call ends there
CreateStart(cp, userId, serverName, tokens, fsOk) ==
  /\ nextId < MaxRowIds
  /\ IF fsOk
     THEN /\ Begins(cp, "create", userId, serverName, tokens, "upsert")
          /\ files' = [files EXCEPT ![CredentialsPathOf(userId, serverName)] =
                         CredentialsData(tokens)]
     ELSE /\ credPc[cp] = "idle"
          /\ cop' = [cop EXCEPT ![cp] = "create"]
          /\ ckey' = [ckey EXCEPT ![cp] = <<userId, serverName>>]
          /\ cresult' = [cresult EXCEPT ![cp] = "FsError"]
          /\ UNCHANGED <<files, credPc, ctokens, csnap, cutoff, purgeList, cstart>>
  /\ UNCHANGED <<nonCredVars, rows, nextId, replaced>>

\* an error path that leaves the file where it is
KeepFile(fs, path) == fs

\* what createCredentials does to the file when the upsert reported an error
CleanUpFile(fs, path) == Unlink(fs, path)

\* createCredentials, lines 67-90: the upsert settled; on an error the file
\* is unlinked and the call throws (unlinkSync throws instead when another
\* call has removed the file meanwhile)
CreateDone(cp, ok) ==
  LET userId == ckey[cp][1]
      serverName == ckey[cp][2]
  IN
  /\ credPc[cp] = "upsert"
  /\ IF ok
     THEN /\ rows' = Upsert(rows, nextId + 1, userId, serverName, ctokens[cp], now)
          /\ nextId' = IF RowsOf(rows, userId, serverName) = {} THEN nextId + 1 ELSE nextId
          /\ replaced' = IF RowsOf(rows, userId, serverName) # {}
                         THEN replaced \cup {getConnectionKey(userId, serverName)}
                         ELSE replaced
          /\ Ends(cp, "record")
          /\ UNCHANGED files
     ELSE /\ files' = CleanUpFile(files, CredentialsPathOf(userId, serverName))
          /\ Ends(cp, IF files[CredentialsPathOf(userId, serverName)].exists
                      THEN "StorageError" ELSE "FsError")
          /\ UNCHANGED <<rows, nextId, replaced>>
  /\ UNCHANGED nonCredVars

\* getCredentials, updateCredentials, deleteCredentials up to the select of
\* getCredentials, lines 108-114
SelectStart(cp, op, userId, serverName, tokens) ==
  /\ op \in {"get", "update", "delete"}
  /\ Begins(cp, op, userId, serverName, tokens, "select")
  /\ UNCHANGED <<nonCredVars, rows, files, nextId, replaced>>

\* the select of getCredentials is answered by the database
Selected(cp) ==
  /\ credPc[cp] = "select"
  /\ csnap' = [csnap EXCEPT ![cp] = SelectActive(rows, ckey[cp][1], ckey[cp][2])]
  /\ credPc' = [credPc EXCEPT ![cp] = "check"]
  /\ UNCHANGED <<nonCredVars, rows, files, nextId, cop, ckey, ctokens, cutoff,
                 purgeList, cresult, cstart, replaced>>

\* what the caller of getCredentials does with null
NullResult(op) ==
  IF op = "get" THEN "NotFound"
  ELSE IF op = "update" THEN "NotFoundError"
  ELSE "ok"

\* getCredentials, lines 116-127, and the caller's code up to its next
\* await: updateCredentials 147-175 rewrites the file and sends the update,
\* deleteCredentials 218-232 unlinks the file and sends the delete
Checked(cp, fsOk) ==
  LET path == csnap[cp][1].credentials_path IN
  /\ credPc[cp] = "check"
  /\ IF csnap[cp] = <<>>
     THEN /\ Ends(cp, NullResult(cop[cp]))
          /\ UNCHANGED files
     ELSE IF ~files[path].exists
     THEN /\ Goes(cp, "deactivate")
          /\ UNCHANGED files
     ELSE IF cop[cp] = "get"
     THEN /\ Ends(cp, "record")
          /\ UNCHANGED files
     ELSE IF ~fsOk
     THEN /\ Ends(cp, "FsError")
          /\ UNCHANGED files
     ELSE IF cop[cp] = "update"
     THEN /\ files' = [files EXCEPT ![path] = UpdatedData(@, ctokens[cp])]
          /\ Goes(cp, "update")
     ELSE /\ files' = Unlink(files, path)
          /\ Goes(cp, "delete")
  /\ UNCHANGED <<nonCredVars, rows, nextId, replaced>>

\* deactivateCredentials, lines 185-198, called directly
DeactivateStart(cp, userId, serverName) ==
  /\ Begins(cp, "deactivate", userId, serverName, NoTokens, "deactivate")
  /\ UNCHANGED <<nonCredVars, rows, files, nextId, replaced>>

\* deactivateCredentials, lines 194-202: the update settled; an error is
\* thrown, through getCredentials and its caller too
Deactivated(cp, ok) ==
  /\ credPc[cp] = "deactivate"
  /\ rows' = IF ok THEN DeactivateRows(rows, ckey[cp][1], ckey[cp][2], now) ELSE rows
  /\ Ends(cp, IF ~ok THEN "StorageError"
              ELSE IF cop[cp] = "deactivate" THEN "ok"
              ELSE NullResult(cop[cp]))
  /\ UNCHANGED <<nonCredVars, files, nextId, replaced>>

\* updateCredentials, lines 171-179: the update settled
UpdateDone(cp, ok) ==
  /\ credPc[cp] = "update"
  /\ rows' = IF ok THEN UpdateRows(rows, ckey[cp][1], ckey[cp][2], ctokens[cp], now)
             ELSE rows
  /\ Ends(cp, IF ok THEN "ok" ELSE "StorageError")
  /\ UNCHANGED <<nonCredVars, files, nextId, replaced>>

\* deleteCredentials, lines 228-236: the delete settled
DeleteDone(cp, ok) ==
  /\ credPc[cp] = "delete"
  /\ rows' = IF ok THEN DeleteRows(rows, ckey[cp][1], ckey[cp][2]) ELSE rows
  /\ Ends(cp, IF ok THEN "ok" ELSE "StorageError")
  /\ UNCHANGED <<nonCredVars, files, nextId, replaced>>

\* cleanupOldCredentials, lines 251-258: the cutoff is computed and the
\* select of the inactive old rows is sent
PurgeStart(cp, daysOld) ==
  /\ credPc[cp] = "idle"
  /\ cop' = [cop EXCEPT ![cp] = "purge"]
  /\ cutoff' = [cutoff EXCEPT ![cp] = now - daysOld]
  /\ cresult' = [cresult EXCEPT ![cp] = "pending"]
  /\ credPc' = [credPc EXCEPT ![cp] = "purge_select"]
  /\ UNCHANGED <<nonCredVars, rows, files, nextId, ckey, ctokens, csnap, purgeList,
                 cstart, replaced>>

\* lines 254-265: the select is answered
PurgeSelected(cp, ok) ==
  LET old == IF ok THEN SetToSeq(SelectStale(rows, cutoff[cp])) ELSE <<>> IN
  /\ credPc[cp] = "purge_select"
  /\ IF old = <<>>
     THEN Ends(cp, "ok")
     ELSE /\ purgeList' = [purgeList EXCEPT ![cp] = old]
          /\ credPc' = [credPc EXCEPT ![cp] = "purge_unlink"]
          /\ UNCHANGED <<cop, ckey, ctokens, csnap, cutoff, cresult, cstart>>
  /\ UNCHANGED <<nonCredVars, rows, files, nextId, replaced>>

\* lines 266-276: the file of the next old row is unlinked if it exists and
\* the delete by id is sent
PurgeUnlink(cp) ==
  /\ credPc[cp] = "purge_unlink"
  /\ files' = Unlink(files, Head(purgeList[cp]).credentials_path)
  /\ Goes(cp, "purge_delete")
  /\ UNCHANGED <<nonCredVars, rows, nextId, replaced>>

\* lines 273-277: the delete settled (its error is not looked at)
PurgeDeleted(cp, ok) ==
  /\ credPc[cp] = "purge_delete"
  /\ rows' = IF ok THEN DeleteById(rows, Head(purgeList[cp]).id) ELSE rows
  /\ IF Tail(purgeList[cp]) = <<>>
     THEN Ends(cp, "ok")
     ELSE /\ purgeList' = [purgeList EXCEPT ![cp] = Tail(@)]
          /\ credPc' = [credPc EXCEPT ![cp] = "purge_unlink"]
          /\ UNCHANGED <<cop, ckey, ctokens, csnap, cutoff, cresult, cstart>>
  /\ UNCHANGED <<nonCredVars, files, nextId, replaced>>

\* the records and files present when the server starts
InitialTokens == [access_token |-> "a1", refresh_token |-> "r1"]

InitialKeys ==
  {<<u, s>> : u \in Users, s \in Services} \ {<<"u2", "google-search-console">>}

InitCred ==
  /\ rows = {NewRow(IF k[1] = "u1" THEN (IF k[2] = "google-analytics" THEN 1 ELSE 2) ELSE 3,
                    k[1], k[2], InitialTokens, 0) : k \in InitialKeys}
  /\ files = [f \in CredPaths |->
                IF \E k \in InitialKeys : f = CredentialsPathOf(k[1], k[2])
                THEN CredentialsData(InitialTokens) ELSE NoFile]
  /\ nextId = 3
  /\ credPc = [cp \in CredCalls |-> "idle"]
  /\ cop = [cp \in CredCalls |-> "none"]
  /\ ckey = [cp \in CredCalls |-> <<"u1", "google-analytics">>]
  /\ ctokens = [cp \in CredCalls |-> NoTokens]
  /\ csnap = [cp \in CredCalls |-> <<>>]
  /\ cutoff = [cp \in CredCalls |-> 0]
  /\ purgeList = [cp \in CredCalls |-> <<>>]
  /\ cresult = [cp \in CredCalls |-> "none"]
  /\ cstart = [cp \in CredCalls |-> [rows |-> {}, file |-> NoFile]]
  /\ replaced = {}

\* ------------------------------------------------- the chat route
\* the tool names the two workers list when nothing else is said
DefaultTools ==
  [s \in Services |->
     IF s = "google-analytics" THEN <<"run_report">> ELSE <<"search_analytics">>]

\* the tools a worker lists, by service
WorkerTools(service) == listed[service]

\* a merge that gives every service the same prefix
SamePrefix(service) == "svc_"

\* tools.map(tool => ({...tool, name: `ga4_${tool.name}`, _originalName, _service}))
PrefixOf(service) == IF service = "google-analytics" THEN "ga4_" ELSE "gsc_"

PrefixTools(service) ==
  [i \in 1..Len(WorkerTools(service)) |->
     [name |-> PrefixOf(service) \o WorkerTools(service)[i],
      _originalName |-> WorkerTools(service)[i],
      _service |-> service]]

\* multi-service route: allTools = [...allTools, ...ga4Tools], then gscTools
MergedTools(services) ==
  (IF "google-analytics" \in services
   THEN PrefixTools("google-analytics") ELSE <<>>)
  \o (IF "google-search-console" \in services
      THEN PrefixTools("google-search-console") ELSE <<>>)

\* single-service route: ga4Tools = await mcpClient.listTools()
SingleTools(services) ==
  IF "google-analytics" \in services
  THEN [i \in 1..Len(WorkerTools("google-analytics")) |->
          [name |-> WorkerTools("google-analytics")[i],
           _originalName |-> WorkerTools("google-analytics")[i],
           _service |-> "google-analytics"]]
  ELSE <<>>

\* functions = allTools.map(tool => ({name: tool.name, ...}))
FunctionNames(tools) == {tools[i].name : i \in 1..Len(tools)}

\* allTools.find(t => t.name === functionName): the index, 0 for undefined
FindTool(tools, functionName) ==
  IF \E i \in 1..Len(tools) : tools[i].name = functionName
  THEN CHOOSE i \in 1..Len(tools) :
         /\ tools[i].name = functionName
         /\ \A j \in 1..(i - 1) : tools[j].name # functionName
  ELSE 0

\* what function_call.arguments of a model response can be
ArgumentStrings == {"", "{}", "{bad"}

\* JSON.parse: an object, or a SyntaxError is thrown
JsonParse(text) == IF text = "{}" THEN "object" ELSE "SyntaxError"

\* JSON.parse(functionCall.arguments || '{}')
ParseArguments(arguments) == JsonParse(IF arguments = "" THEN "{}" ELSE arguments)

\* connectedServices.join(' and ')
JoinAnd(names) ==
  IF Len(names) = 0 THEN ""
  ELSE IF Len(names) = 1 THEN names[1]
  ELSE names[1] \o " and " \o names[2]

\* a system message that names every flagged service
FlaggedServices(flags, services) ==
  (IF "google-analytics" \in flags THEN <<"Google Analytics 4">> ELSE <<>>)
  \o (IF "google-search-console" \in flags THEN <<"Google Search Console">> ELSE <<>>)

\* connectedServices of the multi-service route: a service is named when its
\* flag is set and mcpClients has its client
ConnectedServices(flags, services) ==
  (IF "google-analytics" \in flags /\ "google-analytics" \in services
   THEN <<"Google Analytics 4">> ELSE <<>>)
  \o (IF "google-search-console" \in flags /\ "google-search-console" \in services
      THEN <<"Google Search Console">> ELSE <<>>)

\* systemContent of the two routes
SystemContent(v, tools, flags, services) ==
  "You are a helpful assistant."
  \o (IF v = "single"
      THEN (IF Len(tools) > 0 THEN " You have access to Google Analytics 4 data." ELSE "")
      ELSE (IF Len(ConnectedServices(flags, services)) > 0
            THEN " You have access to data from the following services: "
                 \o JoinAnd(ConnectedServices(flags, services)) \o "."
            ELSE ""))

SystemTurn(v, tools, flags, services) ==
  [role |-> "system", name |-> "", content |-> SystemContent(v, tools, flags, services)]

\* .from('messages').select('role, content').order('created_at', {ascending:
\* false}).limit(10): the user's stored turns, the newest first
recentMessages ==
  <<[role |-> "assistant", name |-> "", content |-> "earlier answer"],
    [role |-> "user", name |-> "", content |-> "earlier question"]>>

\* the rows as the query returned them
NotReversed(rs) == rs

\* Array.prototype.reverse()
Reverse(rs) == [i \in 1..Len(rs) |-> rs[Len(rs) + 1 - i]]

\* (recentMessages || []).reverse()
conversationHistory == Reverse(recentMessages)

UserTurn == [role |-> "user", name |-> "", content |-> "message"]
AssistantTurn(functionName) ==
  [role |-> "assistant", name |-> functionName, content |-> "null"]
ResultTurn(functionName) ==
  [role |-> "function", name |-> functionName, content |-> "toolResult"]
\* content: JSON.stringify({error: error.message, message: 'Failed to execute tool...'})
ErrorTurn(functionName) ==
  [role |-> "function", name |-> functionName, content |-> "error"]
FinalRequestTurn ==
  [role |-> "system", name |-> "", content |-> "provide a final answer"]

\* while (iteration < MAX_ITERATIONS)
LoopGuardOff(i) == i <= MAX_ITERATIONS
LoopGuard(i) == i < MAX_ITERATIONS

\* a model call that is always given the functions
ModelCallWithFunctions(msgs, withFunctions) ==
  /\ llmSeen' = msgs
  /\ llmCalls' = llmCalls + 1
  /\ llmFunctions' = TRUE

\* openai.chat.completions.create({messages, functions?}) is sent
ModelCall(msgs, withFunctions) ==
  /\ llmSeen' = msgs
  /\ llmCalls' = llmCalls + 1
  /\ llmFunctions' = withFunctions

\* content || fallback
ContentKept(content, fallback) == content
ContentOr(content, fallback) == IF content = "" THEN fallback ELSE content

\* after the while loop, with finalResponse = final: the forced final call
\* if (iteration >= MAX_ITERATIONS && !finalResponse), else the response
AfterLoop(msgs, final) ==
  IF iteration >= MAX_ITERATIONS /\ final = ""
  THEN /\ messages' = Append(msgs, FinalRequestTurn)
       /\ ModelCall(Append(msgs, FinalRequestTurn), FALSE)
       /\ runPc' = "final"
       /\ UNCHANGED <<iteration, status>>
  ELSE /\ messages' = msgs
       /\ runPc' = "done"
       /\ status' = 200
       /\ UNCHANGED <<iteration, llmVars>>

\* the top of the while loop, reached with the message list msgs: the next
\* iteration's model call, or what follows the loop
LoopTop(msgs) ==
  IF LoopGuard(iteration)
  THEN /\ iteration' = iteration + 1
       /\ messages' = msgs
       /\ ModelCall(msgs, TRUE)
       /\ runPc' = "llm"
       /\ UNCHANGED status
  ELSE AfterLoop(msgs, finalResponse)

\* POST from the system message to its first model call: the message list is
\* built and the loop is entered if there are tools
EnterLoop(v, tools, flags, services) ==
  LET msgs == <<SystemTurn(v, tools, flags, services)>> \o conversationHistory \o <<UserTurn>> IN
  /\ variant' = v
  /\ allTools' = tools
  /\ mcpClients' = services
  /\ enabled' = flags
  /\ finalResponse' = ""
  /\ IF Len(tools) > 0
     THEN LoopTop(msgs)
     ELSE /\ messages' = msgs
          /\ ModelCall(msgs, FALSE)
          /\ runPc' = "plain"
          /\ UNCHANGED <<iteration, status>>
  /\ UNCHANGED <<listed, pendingCall, callLog, toolFailures, llmFailed>>

\* a request of the route `v` for which the services `services` resolved
\* (the pool is not looked at)
ChatStart(v, services) ==
  /\ runPc = "idle"
  /\ EnterLoop(v, IF v = "single" THEN SingleTools(services) ELSE MergedTools(services),
               services, services)
  /\ UNCHANGED <<poolVars, chatUser, runClients>>

\* one service block of the multi-service POST, lines 236-261 and 264-289,
\* applied to the pool and the store `st`: getCredentials, then
\* getConnection (the cached client, or a new one whose connect() resolves
\* unless the service is in `failing`), then listTools; whatever throws is
\* caught and the service is left out
ResolveService(st, user, flags, failing, service) ==
  LET key == getConnectionKey(user, service)
      n == NewClient(st.nextClient)
      begun == ConnectBegin(st.clients[n], user, service, DateNow, inheritedEnv)
      cached == MapGet(st.connections, key).client
  IN
  IF service \notin flags THEN st
  ELSE IF ~CredentialsFound(st.rows, files, user, service)
  THEN [st EXCEPT !.rows = RowsAfterGet(st.rows, files, user, service, now)]
  ELSE IF CacheHit(st.connections, key)
  THEN [st EXCEPT
          !.connections = MapSet(st.connections, key,
                                 Touch(MapGet(st.connections, key), now)),
          !.got = IF Usable(st.clients[cached])
                  THEN [st.got EXCEPT ![service] = cached] ELSE st.got]
  ELSE IF service \in failing
  THEN [st EXCEPT !.nextClient = n,
                  !.clients = [st.clients EXCEPT ![n] = ConnectFailed(begun)],
                  !.failed = st.failed \cup {n}]
  ELSE [st EXCEPT !.nextClient = n,
                  !.clients = [st.clients EXCEPT ![n] = ConnectOk(begun)],
                  !.connections = MapSet(st.connections, key,
                      [key |-> key, client |-> n, userId |-> user,
                       serverName |-> service, lastUsed |-> now, isConnected |-> TRUE]),
                  !.got = [st.got EXCEPT ![service] = n]]

\* the multi-service POST from its start to its first model call, for the
\* session of `user` with the flags `flags`: both service blocks in turn, then
\* the system message and the loop
ChatResolve(user, flags, failing) ==
  LET st0 == [connections |-> connections, clients |-> clients,
              nextClient |-> nextClient, rows |-> rows, failed |-> failedClients,
              got |-> [s \in Services |-> NoClient]]
      st1 == ResolveService(st0, user, flags, failing, "google-analytics")
      st2 == ResolveService(st1, user, flags, failing, "google-search-console")
      services == {s \in Services : st2.got[s] # NoClient}
  IN
  /\ runPc = "idle"
  /\ nextClient + 2 <= MaxClients
  /\ chatUser' = user
  /\ runClients' = st2.got
  /\ connections' = st2.connections
  /\ clients' = st2.clients
  /\ nextClient' = st2.nextClient
  /\ rows' = st2.rows
  /\ failedClients' = st2.failed
  /\ EnterLoop("multi", MergedTools(services), flags, services)
  /\ UNCHANGED <<now, ms, inheritedEnv, files, nextId, credCallVars, callerVars,
                 sweepVars, shutVars, prevRet, dueClients, sdAtStart, closedClients>>

\* the request ends in the outer catch: status 500
Fail500(byModel) ==
  /\ runPc' = "done"
  /\ status' = 500
  /\ llmFailed' = (llmFailed \/ byModel)
  /\ UNCHANGED <<listed, requestVars, variant, allTools, mcpClients, iteration, messages, finalResponse,
                 pendingCall, callLog, toolFailures, llmVars>>

\* the tool execution try block up to its await of callTool; a throw before
\* it lands in the catch block, which appends the error turn
ExecuteTool(msgs, functionName) ==
  LET idx == FindTool(allTools, functionName)
      issue(passed, service) ==
        /\ callLog' = Append(callLog, [requested |-> functionName,
                                       passed |-> passed, service |-> service,
                                       client |-> runClients[service]])
        /\ pendingCall' = functionName
        /\ messages' = msgs
        /\ runPc' = "tool"
        /\ UNCHANGED <<iteration, status, toolFailures, llmVars>>
      caught ==
        /\ toolFailures' = toolFailures + 1
        /\ LoopTop(Append(msgs, ErrorTurn(functionName)))
        /\ UNCHANGED <<callLog, pendingCall>>
  IN
  IF variant = "single"
  THEN IF "google-analytics" \notin mcpClients
       THEN caught
       ELSE issue(functionName, "google-analytics")
  ELSE IF idx = 0
       THEN caught
       ELSE IF allTools[idx]._service \notin mcpClients
            THEN caught
            ELSE issue(allTools[idx]._originalName, allTools[idx]._service)

\* the responses of openai.chat.completions.create
FunctionCalls(tools) ==
  [kind : {"call"}, name : FunctionNames(tools) \cup {"unknown_tool"},
   arguments : ArgumentStrings, content : {""}]

\* a model that never responds
NeverReplies(tools) == {}

LlmReplies(tools) ==
  [kind : {"throws", "noChoices"}, name : {""}, arguments : {""}, content : {""}]
  \cup [kind : {"text"}, name : {""}, arguments : {""}, content : {"", "answer"}]
  \cup FunctionCalls(tools)

\* the agent loop from the model's response to the next await
LlmReply(reply) ==
  /\ runPc = "llm"
  /\ IF reply.kind = "throws" THEN Fail500(TRUE)
     ELSE IF reply.kind = "noChoices" THEN Fail500(FALSE)
     ELSE IF reply.kind = "text"
     THEN /\ finalResponse' = ContentOr(reply.content, "No response")
          /\ AfterLoop(messages, ContentOr(reply.content, "No response"))
          /\ UNCHANGED <<listed, requestVars, variant, allTools, mcpClients,
                         pendingCall, callLog, toolFailures, llmFailed>>
     ELSE IF ParseArguments(reply.arguments) = "SyntaxError" THEN Fail500(FALSE)
     ELSE /\ ExecuteTool(Append(messages, AssistantTurn(reply.name)), reply.name)
          /\ UNCHANGED <<listed, requestVars, variant, allTools, mcpClients, finalResponse, llmFailed>>
  /\ UNCHANGED poolVars

\* the awaited callTool settled: the result turn, or in the catch block the
\* error turn, is appended and the loop continues
ToolReply(ok) ==
  /\ runPc = "tool"
  /\ toolFailures' = IF ok THEN toolFailures ELSE toolFailures + 1
  /\ LoopTop(Append(messages, IF ok THEN ResultTurn(pendingCall)
                                    ELSE ErrorTurn(pendingCall)))
  /\ pendingCall' = ""
  /\ UNCHANGED <<poolVars, listed, requestVars, variant, allTools, mcpClients, finalResponse, callLog,
                 llmFailed>>

\* the forced final call after the loop, and the plain call of a request
\* without tools: choices[0]?.message?.content || fallback
LastReply(reply) ==
  /\ runPc \in {"final", "plain"}
  /\ reply.kind # "call"
  /\ IF reply.kind = "throws" THEN Fail500(TRUE)
     ELSE /\ finalResponse' =
               ContentOr(IF reply.kind = "text" THEN reply.content ELSE "",
                         IF runPc = "final" THEN "Unable to complete the request."
                         ELSE "No response")
          /\ runPc' = "done"
          /\ status' = 200
          /\ UNCHANGED <<listed, requestVars, variant, allTools, mcpClients, iteration, messages,
                         pendingCall, callLog, toolFailures, llmFailed, llmVars>>
  /\ UNCHANGED poolVars

InitAgent ==
  /\ variant = "none"
  /\ runPc = "idle"
  /\ allTools = <<>>
  /\ mcpClients = {}
  /\ chatUser = "u1"
  /\ enabled = {}
  /\ runClients = [s \in Services |-> NoClient]
  /\ iteration = 0
  /\ messages = <<>>
  /\ finalResponse = ""
  /\ status = 0
  /\ pendingCall = ""
  /\ callLog = <<>>
  /\ toolFailures = 0
  /\ llmFailed = FALSE
  /\ llmSeen = <<>>
  /\ llmCalls = 0
  /\ llmFunctions = FALSE

\* ------------------------------------------------- specifications
InitPool ==
  /\ now = 0
  /\ ms = 0
  /\ connections = <<>>
  /\ clients = [c \in ClientIds |-> FreshClient]
  /\ nextClient = 0
  /\ inheritedEnv = NoPath
  /\ pc = [p \in Procs |-> "idle"]
  /\ cuser = [p \in Procs |-> "u1"]
  /\ cserver = [p \in Procs |-> "google-analytics"]
  /\ held = [p \in Procs |-> NoClient]
  /\ lastCall = [p \in Procs |-> "none"]
  /\ closeCalled = [p \in Procs |-> FALSE]
  /\ userList = [p \in Procs |-> <<>>]
  /\ sweepPc = "idle"
  /\ toRemove = <<>>
  /\ sweepClient = NoClient
  /\ sweepClose = FALSE
  /\ timerActive = TRUE
  /\ shutPc = "idle"
  /\ shutPending = {}
  /\ shutCount = 0
  /\ prevRet = [p \in Procs |-> NoClient]
  /\ dueClients = {}
  /\ sdAtStart = [p \in Procs |-> FALSE]
  /\ failedClients = {}
  /\ closedClients = {}

\* a millisecond passes within the tick
Advance ==
  /\ ms < MaxMs
  /\ ms' = ms + 1
  /\ UNCHANGED <<agentVars, closedClients, failedClients, now, connections, clients, nextClient, inheritedEnv,
                 credVars, callerVars, sweepVars, shutVars, prevRet, dueClients,
                 sdAtStart>>

\* the (user, service) pairs of the requests
Requests == {<<"u1", "google-analytics">>, <<"u2", "google-analytics">>}

Init == InitPool /\ InitCred /\ InitAgent /\ listed = DefaultTools

\* Requests against the pool while the cleanup timer runs
Next ==
  \/ \E p \in 1..NumCallers, r \in Requests : GetConnectionStart(p, r[1], r[2])
  \/ \E p \in 1..NumCallers : CredentialsResolved(p, MaxClients)
  \/ \E p \in 1..NumCallers : ConnectDone(p)
  \/ \E p \in 1..NumCallers : ConnectError(p)
  \/ \E p \in 1..NumCallers, w \in BOOLEAN : CallTool(p, w)
  \/ \E p \in 1..NumCallers : Release(p)
  \/ Tick
  \/ \E ok \in BOOLEAN : SweepStep(ok)

Spec == Init /\ [][Next]_vars

\* ConcurrentCalls calls of getConnection for one new key, all started before
\* any of them gets past its first await
NextFive ==
  \/ \E p \in 1..ConcurrentCalls : GetConnectionStart(p, "u1", "google-analytics")
  \/ \E p \in 1..ConcurrentCalls :
       /\ \A q \in 1..ConcurrentCalls : pc[q] # "idle"
       /\ CredentialsResolved(p, ConcurrentCalls)
  \/ \E p \in 1..ConcurrentCalls : ConnectDone(p)

SpecFive == Init /\ [][NextFive]_vars

\* Requests of two users while the clock runs at millisecond resolution
NextIsolation ==
  \/ \E p \in 1..NumCallers, r \in Requests : GetConnectionStart(p, r[1], r[2])
  \/ \E p \in 1..NumCallers : CredentialsResolved(p, MaxClients)
  \/ \E p \in 1..NumCallers : ConnectDone(p)
  \/ \E p \in 1..NumCallers : ConnectError(p)
  \/ \E p \in 1..NumCallers : Release(p)
  \/ Advance

SpecIsolation == Init /\ [][NextIsolation]_vars

\* Requests against the pool while a termination signal runs shutdown()
NextShutdown ==
  \/ \E p \in 1..NumCallers, r \in Requests : GetConnectionStart(p, r[1], r[2])
  \/ \E p \in 1..NumCallers : CredentialsResolved(p, MaxClients)
  \/ \E p \in 1..NumCallers : ConnectDone(p)
  \/ \E p \in 1..NumCallers : ConnectError(p)
  \/ \E p \in 1..NumCallers : Release(p)
  \/ ShutdownStart
  \/ \E d \in shutPending, ok \in BOOLEAN : ShutdownSettle(d, ok)
  \/ ShutdownFinish

SpecShutdown == Init /\ [][NextShutdown]_vars

\* One chat request, of either route, with every response of the model and
\* every outcome of a tool call
NextAgent ==
  \/ \E services \in SUBSET {"google-analytics"} : ChatStart("single", services)
  \/ \E services \in SUBSET Services : ChatStart("multi", services)
  \/ \E reply \in LlmReplies(allTools) : LlmReply(reply)
  \/ \E ok \in BOOLEAN : ToolReply(ok)
  \/ \E reply \in LlmReplies(allTools) : LastReply(reply)

SpecAgent == Init /\ [][NextAgent]_vars

\* The same requests when every awaited call settles: a pending model call
\* or tool call eventually returns or throws
FairAgent ==
  /\ SpecAgent
  /\ WF_vars(\E reply \in LlmReplies(allTools) : LlmReply(reply))
  /\ WF_vars(\E ok \in BOOLEAN : ToolReply(ok))
  /\ WF_vars(\E reply \in LlmReplies(allTools) : LastReply(reply))

\* the keys and payloads of the CredentialManager calls
CredRequests == {<<"u1", "google-analytics">>}
CreateTokens == {[access_token |-> "a2", refresh_token |-> "r2"]}
UpdateTokens == {[access_token |-> "a3", refresh_token |-> ""],
                 [access_token |-> "", refresh_token |-> "r3"]}

\* Calls of the CredentialManager one after the other, with every outcome of
\* a database write and of a file write, while the clock runs
NextCred ==
  \/ \E cp \in 1..SeqCredCalls, r \in CredRequests, t \in CreateTokens, fsOk \in BOOLEAN :
       CreateStart(cp, r[1], r[2], t, fsOk)
  \/ \E cp \in 1..SeqCredCalls, ok \in BOOLEAN : CreateDone(cp, ok)
  \/ \E cp \in 1..SeqCredCalls, r \in CredRequests :
       SelectStart(cp, "get", r[1], r[2], NoTokens)
  \/ \E cp \in 1..SeqCredCalls, r \in CredRequests, t \in UpdateTokens :
       SelectStart(cp, "update", r[1], r[2], t)
  \/ \E cp \in 1..SeqCredCalls, r \in CredRequests :
       SelectStart(cp, "delete", r[1], r[2], NoTokens)
  \/ \E cp \in 1..SeqCredCalls : Selected(cp)
  \/ \E cp \in 1..SeqCredCalls, fsOk \in BOOLEAN : Checked(cp, fsOk)
  \/ \E cp \in 1..SeqCredCalls, r \in CredRequests : DeactivateStart(cp, r[1], r[2])
  \/ \E cp \in 1..SeqCredCalls, ok \in BOOLEAN : Deactivated(cp, ok)
  \/ \E cp \in 1..SeqCredCalls, ok \in BOOLEAN : UpdateDone(cp, ok)
  \/ \E cp \in 1..SeqCredCalls, ok \in BOOLEAN : DeleteDone(cp, ok)
  \/ \E cp \in 1..SeqCredCalls, daysOld \in 1..MaxDays : PurgeStart(cp, daysOld)
  \/ \E cp \in 1..SeqCredCalls, ok \in BOOLEAN : PurgeSelected(cp, ok)
  \/ \E cp \in 1..SeqCredCalls : PurgeUnlink(cp)
  \/ \E cp \in 1..SeqCredCalls, ok \in BOOLEAN : PurgeDeleted(cp, ok)
  \/ Tick

SpecCred == Init /\ [][NextCred]_vars

\* Deactivation, re-creation and the purge of old inactive credentials while
\* the clock runs
NextPurge ==
  \/ \E cp \in CredCalls, t \in CreateTokens :
       CreateStart(cp, "u1", "google-analytics", t, TRUE)
  \/ \E cp \in CredCalls, ok \in BOOLEAN : CreateDone(cp, ok)
  \/ \E cp \in CredCalls : DeactivateStart(cp, "u1", "google-analytics")
  \/ \E cp \in CredCalls, ok \in BOOLEAN : Deactivated(cp, ok)
  \/ \E cp \in CredCalls, daysOld \in 1..MaxDays : PurgeStart(cp, daysOld)
  \/ \E cp \in CredCalls, ok \in BOOLEAN : PurgeSelected(cp, ok)
  \/ \E cp \in CredCalls : PurgeUnlink(cp)
  \/ \E cp \in CredCalls, ok \in BOOLEAN : PurgeDeleted(cp, ok)
  \/ Tick

SpecPurge == Init /\ [][NextPurge]_vars

\* Requests against the pool while the credentials of the key are
\* deactivated or deleted
NextRevoke ==
  \/ \E p \in 1..NumCallers : GetConnectionStart(p, "u1", "google-analytics")
  \/ \E p \in 1..NumCallers : CredentialsResolved(p, MaxClients)
  \/ \E p \in 1..NumCallers : ConnectDone(p)
  \/ \E p \in 1..NumCallers : ConnectError(p)
  \/ \E p \in 1..NumCallers : Release(p)
  \/ \E cp \in 1..SeqCredCalls :
       SelectStart(cp, "delete", "u1", "google-analytics", NoTokens)
  \/ \E cp \in 1..SeqCredCalls : Selected(cp)
  \/ \E cp \in 1..SeqCredCalls, fsOk \in BOOLEAN : Checked(cp, fsOk)
  \/ \E cp \in 1..SeqCredCalls, ok \in BOOLEAN : DeleteDone(cp, ok)
  \/ \E cp \in 1..SeqCredCalls : DeactivateStart(cp, "u1", "google-analytics")
  \/ \E cp \in 1..SeqCredCalls, ok \in BOOLEAN : Deactivated(cp, ok)

SpecRevoke == Init /\ [][NextRevoke]_vars

\* Chat and status requests for one key while the disconnect route runs for
\* it: closeConnection, and when it has returned (the key has no entry at
\* that moment) deleteCredentials; nothing authorizes the key again
NextDisconnect ==
  \/ \E p \in 1..NumCallers : GetConnectionStart(p, "u1", "google-analytics")
  \/ \E p \in 1..NumCallers : CredentialsResolved(p, MaxClients - 1)
  \/ \E p \in 1..NumCallers : ConnectDone(p)
  \/ \E p \in 1..NumCallers : Release(p)
  \/ \E p \in 1..NumCallers : CloseConnectionStart(p, "u1", "google-analytics")
  \/ \E p \in 1..NumCallers, ok \in BOOLEAN : CloseConnectionDone(p, ok)
  \/ \E cp \in 1..SeqCredCalls :
       /\ ~MapHas(connections, getConnectionKey("u1", "google-analytics"))
       /\ \A p \in 1..NumCallers : pc[p] # "closing"
       /\ SelectStart(cp, "delete", "u1", "google-analytics", NoTokens)
  \/ \E cp \in 1..SeqCredCalls : Selected(cp)
  \/ \E cp \in 1..SeqCredCalls, fsOk \in BOOLEAN : Checked(cp, fsOk)
  \/ \E cp \in 1..SeqCredCalls, ok \in BOOLEAN : DeleteDone(cp, ok)

SpecDisconnect == Init /\ [][NextDisconnect]_vars

\* Requests of the multi-service route for either user, with either flag and
\* with connects that fail, against a pool that may hold a connection of
\* an earlier request, which has ended when this request starts
NextRoute ==
  \/ runPc = "idle" /\ \E r \in Requests : GetConnectionStart(1, r[1], r[2])
  \/ runPc = "idle" /\ CredentialsResolved(1, 1)
  \/ runPc = "idle" /\ ConnectDone(1)
  \/ runPc = "idle" /\ Release(1)
  \/ \E user \in Users, flags \in SUBSET Services, failing \in SUBSET Services :
       ChatResolve(user, flags, failing)
  \/ \E reply \in LlmReplies(allTools) : LlmReply(reply)
  \/ \E ok \in BOOLEAN : ToolReply(ok)
  \/ \E reply \in LlmReplies(allTools) : LastReply(reply)

SpecRoute == Init /\ [][NextRoute]_vars

\* a worker that lists no tool
NoTools == [s \in Services |-> <<>>]

\* Requests that use and close the connection of one key, with a worker that
\* lists tools or none, that may fail to answer and may exit
InitClient == InitPool /\ InitCred /\ InitAgent /\ listed \in {DefaultTools, NoTools}

NextClient ==
  \/ \E p \in 1..NumCallers : GetConnectionStart(p, "u1", "google-analytics")
  \/ \E p \in 1..NumCallers : CredentialsResolved(p, MaxClients - 1)
  \/ \E p \in 1..NumCallers : ConnectDone(p)
  \/ \E p \in 1..NumCallers, w \in BOOLEAN : CallTool(p, w)
  \/ \E p \in 1..NumCallers, w \in BOOLEAN : ListTools(p, w)
  \/ \E c \in ClientIds : WorkerExits(c)
  \/ \E p \in 1..NumCallers : CloseConnectionStart(p, "u1", "google-analytics")
  \/ \E p \in 1..NumCallers, ok \in BOOLEAN : CloseConnectionDone(p, ok)
  \/ \E p \in 1..NumCallers : Release(p)

SpecClient == InitClient /\ [][NextClient]_vars

\* One chat request of either route against an empty pool, with workers that
\* list tools or none, services that are not flagged, have no credentials or
\* fail to connect, and every response of the model
NextPlain ==
  \/ \E services \in SUBSET {"google-analytics"} : ChatStart("single", services)
  \/ \E user \in Users, flags \in SUBSET Services, failing \in SUBSET Services :
       ChatResolve(user, flags, failing)
  \/ \E reply \in LlmReplies(allTools) : LlmReply(reply)
  \/ \E ok \in BOOLEAN : ToolReply(ok)
  \/ \E reply \in LlmReplies(allTools) : LastReply(reply)

SpecPlain == InitClient /\ [][NextPlain]_vars

\* The same when requests for the key keep arriving and every awaited call
\* settles; the requests come more often than the idle threshold, so that no
\* sweep selects the entry
FairClient ==
  /\ SpecClient
  /\ WF_vars(\E p \in 1..NumCallers : GetConnectionStart(p, "u1", "google-analytics"))
  /\ WF_vars(\E p \in 1..NumCallers : CredentialsResolved(p, MaxClients - 1))
  /\ WF_vars(\E p \in 1..NumCallers : ConnectDone(p))
  /\ WF_vars(\E p \in 1..NumCallers, ok \in BOOLEAN : CloseConnectionDone(p, ok))
  /\ WF_vars(\E p \in 1..NumCallers : Release(p))

\* the keys of the requests and closes: two services of one user, and a
\* second user
CloseRequests == Requests \cup {<<"u1", "google-search-console">>}

\* Requests against the pool while connections are closed one by one
\* (closeConnection) and per user (closeUserConnections)
NextClose ==
  \/ \E p \in 1..NumCallers, r \in CloseRequests : GetConnectionStart(p, r[1], r[2])
  \/ \E p \in 1..NumCallers : CredentialsResolved(p, MaxClients)
  \/ \E p \in 1..NumCallers : ConnectDone(p)
  \/ \E p \in 1..NumCallers : Release(p)
  \/ \E p \in 1..NumCallers, r \in CloseRequests : CloseConnectionStart(p, r[1], r[2])
  \/ \E p \in 1..NumCallers, ok \in BOOLEAN : CloseConnectionDone(p, ok)
  \/ \E p \in 1..NumCallers, u \in Users : CloseUserStart(p, u)
  \/ \E p \in 1..NumCallers, ok \in BOOLEAN : CloseUserStep(p, ok)

SpecClose == Init /\ [][NextClose]_vars

\* Requests of two users, one after the other or together, while the cleanup
\* timer runs
NextSweep ==
  \/ \E p \in 1..NumCallers, r \in Requests : GetConnectionStart(p, r[1], r[2])
  \/ \E p \in 1..NumCallers : CredentialsResolved(p, MaxClients - 1)
  \/ \E p \in 1..NumCallers : ConnectDone(p)
  \/ \E p \in 1..NumCallers : Release(p)
  \/ Tick
  \/ \E ok \in BOOLEAN : SweepStep(ok)

SpecSweep == Init /\ [][NextSweep]_vars

\* the names a worker may list, among them names that look prefixed
ToolNames == {"list_items", "ga4_list_items", "gsc_list_items"}

\* listTools() of the two workers: any lists of up to MaxTools names, the same
\* name in both lists included
Catalogs ==
  [Services -> UNION {[1..n -> ToolNames] : n \in 0..MaxTools}]

\* Requests of the multi-service route, over every pair of worker catalogs
InitCatalog == InitPool /\ InitCred /\ InitAgent /\ listed \in Catalogs

NextCatalog == \E services \in SUBSET Services : ChatStart("multi", services)

SpecCatalog == InitCatalog /\ [][NextCatalog]_vars

\* ------------------------------------------------- properties
\* C1: in every run of the agent loop, whatever the model answers, the
\* iteration counter never exceeds MAX_ITERATIONS, and at most MAX_ITERATIONS
\* tool invocations are issued in the run
IterationBounded ==
  /\ iteration <= MAX_ITERATIONS
  /\ Len(callLog) <= MAX_ITERATIONS

\* a finished run whose model asked for a tool on every iteration
IterationBoundReached ==
  /\ runPc = "done"
  /\ iteration = MAX_ITERATIONS
  /\ Len(callLog) = MAX_ITERATIONS

\* C2: when ConcurrentCalls getConnection calls for one new key run
\* concurrently, exactly one worker is spawned and all callers receive the
\* same connection
SingleSpawn ==
  (\A p \in 1..ConcurrentCalls : pc[p] = "holding") =>
    /\ Cardinality(Spawned) = 1
    /\ \A p, q \in 1..ConcurrentCalls : held[p] = held[q]

\* C3: a getConnection call that returns to a task whose previous call for
\* the same key returned a connection, with no eviction and no close of the
\* key since, returns that same connection
ReuseSameConnection ==
  [][\A p \in 1..NumCallers :
       (/\ pc[p] # "holding"
        /\ pc'[p] = "holding"
        /\ prevRet[p] # NoClient
        /\ Key(p)' = Key(p))
       => held'[p] = prevRet[p]]_vars

\* C4: the connections of two different users are never the same object, and
\* no two workers of different users are launched with the same secret-file
\* path, also when both are created at the same clock instant
IsolatedUsers ==
  /\ \A p, q \in 1..NumCallers :
       (pc[p] = "holding" /\ pc[q] = "holding" /\ cuser[p] # cuser[q])
       => held[p] # held[q]
  /\ \A c, d \in Spawned :
       clients[c].userId # clients[d].userId
       => clients[c].launchPath # clients[d].launchPath

\* C5: when a sweep has ended, every connection that was cached with a
\* last-used time older than the idle threshold when the sweep began is
\* disconnected and out of the pool, and no task was handed it since
SweepEvictsIdle ==
  sweepPc = "idle" =>
    \A c \in dueClients :
      /\ ~InPool(c)
      /\ ~clients[c].isConnected
      /\ clients[c].worker # "running"

\* C6: a connection returned by getConnection stays usable while the task
\* holds it: it is connected and callTool does not fail with not-connected
HeldStaysUsable ==
  \A p \in 1..NumCallers :
    pc[p] = "holding" =>
      /\ Usable(clients[held[p]])
      /\ lastCall[p] # "NotConnected"

\* C7: a failing tool invocation does not end the run: no callTool is issued
\* for a name that is not in the catalog, every failed invocation has its
\* error turn in the message list, and the model call that follows is given
\* the message list with that turn
ToolFailureHandled ==
  /\ \A i \in 1..Len(callLog) : callLog[i].requested \in FunctionNames(allTools)
  /\ toolFailures =
       Cardinality({i \in 1..Len(messages) :
                      messages[i].role = "function" /\ messages[i].content = "error"})
  /\ runPc \in {"llm", "final"} => llmSeen = messages

\* C8: a run ends with an error instead of an answer only if a call of the
\* language model itself failed
FailsOnlyOnModelFailure == status = 500 => llmFailed

\* C9: when shutdown() returns, no worker the pool started is running and
\* the pool holds no entry
ShutdownLeavesNothing ==
  [][(shutPc # "done" /\ shutPc' = "done")
       => (Running' = {} /\ connections' = <<>>)]_vars

\* C10: a getConnection call started after shutdown() began that has to
\* create a connection spawns no worker and inserts no entry
FailFastAfterShutdown ==
  \A p \in 1..NumCallers : sdAtStart[p] => pc[p] # "connecting"

\* C11: a getConnection call never returns a connection when the store holds
\* no active record for the key at the time of the call, also when a
\* connection of the key is cached
NoConnectionWithoutCredentials ==
  [][\A p \in 1..NumCallers :
       (pc[p] = "idle" /\ pc'[p] = "holding")
       => SelectActive(rows, cuser'[p], cserver'[p]) # <<>>]_vars

\* C12: when connect() of a new connection rejects, getConnection throws and
\* the pool map is as that call found it, and from then on the failed client
\* is not connected, is in no entry of the pool and is held by no task
FailedConnectNotCached ==
  /\ [](\A c \in failedClients :
          /\ ~clients[c].isConnected
          /\ ~InPool(c)
          /\ \A p \in 1..NumCallers : pc[p] = "holding" => held[p] # c)
  /\ [][\A p \in 1..NumCallers :
          (pc[p] = "connecting" /\ pc'[p] = "idle")
          => (connections' = connections /\ held[p] \in failedClients')]_vars

\* after a failed attempt, a later getConnection for the same key returned
\* a fresh connection
FreshAttemptAfterFailure ==
  \E c \in failedClients, p \in 1..NumCallers :
    /\ pc[p] = "holding"
    /\ clients[held[p]].userId = clients[c].userId
    /\ clients[held[p]].serverName = clients[c].serverName
    /\ held[p] > c

\* C13: after any sequence of create, update, deactivate, delete and purge
\* calls the table holds at most one row for each (user, service); a create
\* on a key that has a row replaces that row
OneRecordPerKey ==
  \A u \in Users, s \in Services : Cardinality(RowsOf(rows, u, s)) <= 1

\* a create on a key that had a row has replaced it by the new record
ReplacedByCreate ==
  /\ getConnectionKey("u1", "google-analytics") \in replaced
  /\ \E t \in CreateTokens :
       RowsOf(rows, "u1", "google-analytics")
         = {NewRow(1, "u1", "google-analytics", t, now)}

\* C14: when the database write of a create, update or delete reports an
\* error, the key's file and rows are what they were when the call started
FailedWriteChangesNothing ==
  [][\A cp \in 1..SeqCredCalls :
       (/\ credPc[cp] \in {"upsert", "update", "delete"}
        /\ cresult'[cp] = "StorageError")
       => KeyState(rows', files', ckey[cp][1], ckey[cp][2]) = cstart[cp]]_vars

\* C15: when the upsert of a create settles, either the record is stored and
\* the call returns it, or the call throws (the storage error, when the file
\* it wrote is still there to be removed), the table is untouched and no file
\* is left at the path the create wrote
FailedCreateLeavesNoFile ==
  [][\A cp \in 1..SeqCredCalls :
       credPc[cp] = "upsert" /\ credPc'[cp] = "idle"
       => \/ /\ cresult'[cp] = "record"
             /\ \E r \in RowsOf(rows', ckey[cp][1], ckey[cp][2]) :
                  r = NewRow(r.id, ckey[cp][1], ckey[cp][2], ctokens[cp], now)
          \/ /\ cresult'[cp] \in {"StorageError", "FsError"}
             /\ files[CredentialsPathOf(ckey[cp][1], ckey[cp][2])].exists
                  => cresult'[cp] = "StorageError"
             /\ rows' = rows
             /\ ~files'[CredentialsPathOf(ckey[cp][1], ckey[cp][2])].exists]_vars

\* a create has thrown the storage error and its file is gone
CreateFailedFileGone ==
  \E cp \in 1..SeqCredCalls :
    /\ cop[cp] = "create"
    /\ credPc[cp] = "idle"
    /\ cresult[cp] = "StorageError"
    /\ ~files[CredentialsPathOf(ckey[cp][1], ckey[cp][2])].exists

\* C16: a getCredentials call returns the record only when the selected row
\* is active and its file exists; when the row is active and the file is
\* missing the call deactivates the row and returns null; when no active row
\* is selected it returns null and changes nothing; it never touches a file,
\* and only a create makes a key active again
GetSelfHeals ==
  [][/\ \A cp \in 1..SeqCredCalls :
          (cop[cp] = "get" /\ credPc[cp] # "idle" /\ credPc'[cp] = "idle")
          => /\ files' = files
             /\ cresult'[cp] = "record"
                  => /\ csnap[cp] # <<>>
                     /\ csnap[cp][1].is_active
                     /\ files[csnap[cp][1].credentials_path].exists
                     /\ rows' = rows
             /\ (credPc[cp] = "check" /\ cresult'[cp] # "record")
                  => csnap[cp] = <<>> /\ cresult'[cp] = "NotFound" /\ rows' = rows
             /\ credPc[cp] = "deactivate"
                  => /\ cresult'[cp] = "NotFound"
                     /\ SelectActive(rows', ckey[cp][1], ckey[cp][2]) = <<>>
     /\ \A u \in Users, s \in Services :
          (SelectActive(rows, u, s) = <<>> /\ SelectActive(rows', u, s) # <<>>)
          => \E cp \in 1..SeqCredCalls :
               cop[cp] = "create" /\ credPc[cp] = "upsert" /\ ckey[cp] = <<u, s>>]_vars

\* C17: when a deleteCredentials call returns without an error, the key has
\* neither a row nor a file, whatever the key's state was before the call
DeleteLeavesNothing ==
  [][\A cp \in 1..SeqCredCalls :
       (cop[cp] = "delete" /\ credPc[cp] # "idle" /\ credPc'[cp] = "idle"
        /\ cresult'[cp] = "ok")
       => /\ RowsOf(rows', ckey[cp][1], ckey[cp][2]) = {}
          /\ ~files'[CredentialsPathOf(ckey[cp][1], ckey[cp][2])].exists]_vars

\* C18: an updateCredentials call on a key without an active row throws
\* 'Credentials not found' and writes nothing; when it succeeds, the supplied
\* tokens are in the file and in the row, the tokens not supplied are what
\* they were when the call started, and the refresh token of the file is the
\* refresh token of the row
UpdateMergesBothSides ==
  [][\A cp \in 1..SeqCredCalls :
       (cop[cp] = "update" /\ credPc[cp] # "idle" /\ credPc'[cp] = "idle")
       => LET userId == ckey[cp][1]
              serverName == ckey[cp][2]
              path == CredentialsPathOf(userId, serverName)
          IN
          /\ (credPc[cp] = "check" /\ csnap[cp] = <<>>)
               => cresult'[cp] = "NotFoundError" /\ rows' = rows /\ files' = files
          /\ cresult'[cp] = "ok"
               => /\ files'[path] = UpdatedData(cstart[cp].file, ctokens[cp])
                  /\ \A r \in cstart[cp].rows :
                       \E n \in RowsOf(rows', userId, serverName) :
                         /\ n.access_token =
                              UpdatedData(CredentialsData(r), ctokens[cp]).access_token
                         /\ n.refresh_token =
                              UpdatedData(CredentialsData(r), ctokens[cp]).refresh_token
                  /\ \A n \in RowsOf(rows', userId, serverName) :
                       files'[path].refresh_token = n.refresh_token]_vars

\* C19: a step of cleanupOldCredentials removes only rows that are inactive
\* and were last updated before the cutoff, and takes away neither the row
\* nor the file of a key whose row is active, also when a create of the key
\* ran after the purge selected its rows
PurgeSparesActive ==
  [][\A cp \in CredCalls :
       (/\ cop[cp] = "purge"
        /\ credPc[cp] \in {"purge_unlink", "purge_delete"}
        /\ credPc'[cp] # credPc[cp])
       => /\ \A r \in rows \ rows' : ~r.is_active /\ r.updated_at < cutoff[cp]
          /\ \A r \in rows :
               r.is_active => files'[r.credentials_path] = files[r.credentials_path]]_vars

\* C20: in the merged catalog of the multi-service route, descriptors of
\* different services have different names, also when both workers list the
\* same tool name; the descriptors of a service carry, in order, the names its
\* worker listed, and looking a descriptor's name up in the catalog gives its
\* service and its worker's name for the tool
MergedNamesDistinct ==
  (variant = "multi" /\ runPc # "idle")
  => /\ \A i, j \in 1..Len(allTools) :
          allTools[i]._service # allTools[j]._service
          => allTools[i].name # allTools[j].name
     /\ \A s \in mcpClients :
          LET own == SelectSeq(allTools, LAMBDA t : t._service = s) IN
          [i \in 1..Len(own) |-> own[i]._originalName] = listed[s]
     /\ \A i \in 1..Len(allTools) :
          /\ allTools[i]._service \in mcpClients
          /\ allTools[FindTool(allTools, allTools[i].name)]._service
               = allTools[i]._service
          /\ allTools[FindTool(allTools, allTools[i].name)]._originalName
               = allTools[i]._originalName

\* both workers list a tool of the same name and both are in the catalog
SameNameInBothServices ==
  /\ variant = "multi"
  /\ runPc # "idle"
  /\ \E i, j \in 1..Len(allTools) :
       /\ allTools[i]._service # allTools[j]._service
       /\ allTools[i]._originalName = allTools[j]._originalName

\* C21: when a request of the multi-service route flags both services, the
\* user's credentials resolve for service A and its connection is obtained,
\* and service B has no credentials or its connect() throws, then the catalog
\* is A's tools, the client map holds A only, the system message is the one
\* of a request for A alone, and the request goes on to its model call; a
\* request that ends with status 200 carries an answer
UnresolvedServiceLeftOut ==
  /\ [][\A A, B \in Services :
          (/\ A # B
           /\ runPc = "idle" /\ runPc' # "idle"
           /\ variant' = "multi"
           /\ enabled' = {A, B}
           /\ CredentialsFound(rows, files, chatUser', A)
           /\ ~\E c \in failedClients' \ failedClients : clients'[c].serverName = A
           /\ \/ ~CredentialsFound(rows, files, chatUser', B)
              \/ \E c \in failedClients' \ failedClients : clients'[c].serverName = B)
          => /\ mcpClients' = {A}
             /\ allTools' = PrefixTools(A)
             /\ messages'[1] = SystemTurn("multi", PrefixTools(A), {A}, {A})
             /\ runPc' \in {"llm", "plain"}
             /\ status' = 0]_vars
  /\ [](status = 200 => finalResponse # "")

\* a user with credentials for Google Analytics only asked with both flags
\* set and got the model's answer
AnsweredWithOneService ==
  /\ variant = "multi"
  /\ chatUser = "u2"
  /\ enabled = Services
  /\ mcpClients = {"google-analytics"}
  /\ ~CredentialsFound(rows, files, "u2", "google-search-console")
  /\ runPc = "done"
  /\ status = 200
  /\ finalResponse = "answer"

ToolCallsRouted ==
  variant = "multi"
  => \A i \in 1..Len(callLog) :
       LET e == callLog[i]
           idx == FindTool(allTools, e.requested)
       IN
       /\ idx # 0
       /\ e.service = allTools[idx]._service
       /\ e.passed = allTools[idx]._originalName
       /\ e.requested = PrefixOf(e.service) \o e.passed
       /\ \E k \in 1..Len(listed[e.service]) : listed[e.service][k] = e.passed
       /\ e.client # NoClient
       /\ e.client = runClients[e.service]
       /\ clients[e.client].userId = chatUser
       /\ clients[e.client].serverName = e.service

\* a tool call was issued while the pool held a connection of another user
\* for the same service
RoutedBesideOtherUser ==
  /\ variant = "multi"
  /\ Len(callLog) > 0
  /\ \E i \in 1..Len(connections) :
       /\ connections[i].userId # chatUser
       /\ connections[i].serverName = callLog[1].service

\* C24: after a transport failure on a connected client (its worker exited,
\* or a callTool/listTools request to the worker failed) the client is not
\* connected, and a task is handed such a client by no later getConnection
TransportFailureDisconnects ==
  /\ [](\A c \in ClientIds : clients[c].worker = "exited" => ~clients[c].isConnected)
  /\ [](\A p \in 1..NumCallers :
          (pc[p] = "holding" /\ lastCall[p] = "InvocationError")
          => ~clients[held[p]].isConnected)
  /\ [][\A p \in 1..NumCallers :
          (pc[p] = "idle" /\ pc'[p] = "holding")
          => clients[held'[p]].worker = "running"]_vars

\* C25: a callTool or listTools on a client that is not connected (its flag is
\* clear, or its connect() failed, or disconnect() was called on it) fails
\* with "Not connected" and sends nothing to the worker
CallsOnlyWhileConnected ==
  [][\A p \in 1..NumCallers :
       (/\ pc[p] = "holding" /\ pc'[p] = "holding"
        /\ lastCall'[p] # lastCall[p]
        /\ \/ ~clients[held[p]].isConnected
           \/ held[p] \in failedClients
           \/ held[p] \in closedClients)
       => /\ lastCall'[p] = "NotConnected"
          /\ clients'[held[p]].fetches = clients[held[p]].fetches]_vars

\* C26: the catalog of a connected client was fetched from its worker once,
\* by connect(), whatever the worker lists
CatalogFetchedOnce ==
  \A c \in ClientIds : clients[c].isConnected => clients[c].fetches = 1

\* C27: when disconnect() has returned or thrown, the client is not connected,
\* its worker is gone and its cached catalog is empty
DisconnectResetsClient ==
  \A c \in closedClients :
    /\ ~clients[c].isConnected
    /\ clients[c].worker # "running"
    /\ clients[c].cachedTools = <<>>

\* C28: when closeConnection(user, service) returns, the pool has no entry of
\* that key, disconnect() was called on the client of the entry it removed,
\* and the entries of the other keys and their clients are as they were
CloseConnectionEvictsOne ==
  [][\A p \in 1..NumCallers :
       (pc[p] = "closing" /\ pc'[p] = "idle")
       => /\ ~MapHas(connections', Key(p))
          /\ \A i \in 1..Len(connections) :
               IF connections[i].key = Key(p)
               THEN connections[i].client \in closedClients'
               ELSE /\ MapHas(connections', connections[i].key)
                    /\ MapGet(connections', connections[i].key) = connections[i]
                    /\ clients'[connections[i].client] = clients[connections[i].client]]_vars

\* C29: when closeUserConnections(user) returns, the pool has no entry of
\* that user, disconnect() was called on the client of every entry it
\* removed, and the entries of the other users are as they were
CloseUserEvictsAll ==
  [][\A p \in 1..NumCallers :
       (pc[p] = "closingUser" /\ pc'[p] = "idle")
       => /\ \A i \in 1..Len(connections') :
               connections'[i].userId # Head(userList[p]).userId
          /\ \A i \in 1..Len(connections) :
               IF connections[i].key = Head(userList[p]).key
               THEN connections[i].client \in closedClients'
               ELSE /\ MapHas(connections', connections[i].key)
                    /\ MapGet(connections', connections[i].key) = connections[i]
                    /\ clients'[connections[i].client] = clients[connections[i].client]]_vars

\* C30: a getConnection that returns a client, from the cache or newly
\* created, leaves the entry of its key with lastUsed equal to the current
\* time, and a sweep that starts selects no entry whose lastUsed is at most
\* idleThreshold old
ReturnRefreshesLastUsed ==
  /\ [][\A p \in 1..NumCallers :
          (pc[p] # "holding" /\ pc'[p] = "holding")
          => /\ MapHas(connections', getConnectionKey(cuser'[p], cserver'[p]))
             /\ MapGet(connections', getConnectionKey(cuser'[p], cserver'[p])).lastUsed = now
             /\ MapGet(connections', getConnectionKey(cuser'[p], cserver'[p])).client = held'[p]]_vars
  /\ [][(sweepPc = "idle" /\ sweepPc' = "evicting")
          => \A i \in 1..Len(connections) :
               now' - connections[i].lastUsed <= idleThreshold
               => \A j \in 1..Len(toRemove') : toRemove'[j] # connections[i].key]_vars

\* a sweep is evicting another key while the pool holds an entry that was
\* created more than idleThreshold ago, was returned from the cache since,
\* and was not selected
RecentlyUsedSpared ==
  /\ sweepPc = "evicting"
  /\ \E i \in 1..Len(connections) :
       /\ \E t \in 0..MaxTime, m \in 0..MaxMs :
            /\ clients[connections[i].client].credentialsPath = TempCredentialsPath(<<t, m>>)
            /\ now - t > idleThreshold
       /\ now - connections[i].lastUsed <= idleThreshold
       /\ \A j \in 1..Len(toRemove) : toRemove[j] # connections[i].key

\* C31: no getConnection returns a client whose disconnect() has already been
\* started by the sweep, closeConnection, closeUserConnections or shutdown
NoReturnOfDisconnecting ==
  [][\A p \in 1..NumCallers :
       (pc[p] = "idle" /\ pc'[p] = "holding")
       => /\ \A q \in 1..NumCallers :
               /\ pc[q] = "closing" => held'[p] # held[q]
               /\ pc[q] = "closingUser" => held'[p] # Head(userList[q]).client
          /\ sweepPc = "evicting" => held'[p] # sweepClient
          /\ \A d \in shutPending : held'[p] # d.client]_vars

\* C32: every worker is launched with the path of the secret file that the
\* credential store recorded for the connection's user and service
LaunchedWithStoredSecret ==
  \A c \in Spawned :
    clients[c].launchPath = CredentialsPathOf(clients[c].userId, clients[c].serverName)

\* C33: a request that has entered the agent loop (or its plain completion)
\* eventually ends, with a response or with the error of the outer catch
RunEventuallyEnds ==
  (runPc \in {"llm", "tool", "final", "plain"}) ~> (runPc = "done" /\ status \in {200, 500})

\* a request ended with an answer after every one of its MAX_ITERATIONS
\* iterations ran a tool call that failed
EndedAfterFailingTools ==
  /\ runPc = "done"
  /\ status = 200
  /\ iteration = MAX_ITERATIONS
  /\ toolFailures = MAX_ITERATIONS

\* C34: a cached connection whose worker has exited is eventually no longer
\* in the pool, so that a later getConnection of the key creates a new one
DeadConnectionDropped ==
  \A c \in ClientIds :
    (clients[c].worker = "exited" /\ InPool(c)) ~> ~InPool(c)

NoToolsPlainAnswer ==
  /\ (runPc # "idle" /\ \A s \in mcpClients : listed[s] = <<>>) => allTools = <<>>
  /\ (runPc # "idle" /\ allTools = <<>>)
       => /\ runPc \in {"plain", "done"}
          /\ llmCalls = 1
          /\ ~llmFunctions
          /\ llmSeen = messages
          /\ Len(messages) = Len(conversationHistory) + 2
          /\ iteration = 0
          /\ callLog = <<>>
          /\ toolFailures = 0
          /\ runPc = "done"
               => \/ status = 200 /\ finalResponse \in {"answer", "No response"}
                  \/ status = 500 /\ llmFailed

\* a multi-service request whose resolved service listed no tool was answered
\* with the model's text
AnsweredWithoutCatalog ==
  /\ runPc = "done"
  /\ status = 200
  /\ variant = "multi"
  /\ mcpClients # {}
  /\ allTools = <<>>
  /\ finalResponse = "answer"

\* C37: the message list of a request starts with the system turn, the stored
\* turns oldest first and the new user turn; a step of the request only
\* appends to it; after the seed come pairs of an assistant tool-call turn and
\* a function turn of the same name (the result or the error payload), then
\* at most the instruction of the forced final call; every list passed to a
\* model call has each tool-call turn followed by its function turn
MessagesAppendOnly ==
  /\ [](LET seedLen == Len(recentMessages) + 2
            paired(msgs) ==
              \A i \in (seedLen + 1)..Len(msgs) :
                \/ /\ msgs[i] = FinalRequestTurn
                   /\ i = Len(msgs)
                   /\ (i - seedLen) % 2 = 1
                \/ /\ (i - seedLen) % 2 = 1
                   /\ msgs[i].role = "assistant" /\ msgs[i].name # ""
                   /\ msgs[i] = AssistantTurn(msgs[i].name)
                \/ /\ (i - seedLen) % 2 = 0
                   /\ msgs[i - 1].role = "assistant"
                   /\ msgs[i] \in {ResultTurn(msgs[i - 1].name),
                                   ErrorTurn(msgs[i - 1].name)}
        IN runPc # "idle"
             => /\ Len(messages) >= seedLen
                /\ messages[1].role = "system" /\ messages[1] # FinalRequestTurn
                /\ messages[2].content = "earlier question"
                /\ messages[3].content = "earlier answer"
                /\ messages[seedLen] = UserTurn
                /\ paired(messages)
                /\ messages[Len(messages)].role = "assistant" <=> runPc = "tool"
                /\ llmCalls > 0
                     => /\ paired(llmSeen)
                        /\ llmSeen[Len(llmSeen)].role # "assistant")
  /\ [][runPc # "idle"
          => /\ Len(messages') >= Len(messages)
             /\ SubSeq(messages', 1, Len(messages)) = messages]_vars

\* a request ended whose list holds, after the seed, a tool call with its
\* result and a tool call with its error payload
PairsAfterSeed ==
  /\ runPc = "done"
  /\ Len(messages) >= Len(recentMessages) + 6
  /\ messages[Len(recentMessages) + 4] = ResultTurn(messages[Len(recentMessages) + 3].name)
  /\ messages[Len(recentMessages) + 6] = ErrorTurn(messages[Len(recentMessages) + 5].name)

\* C38: while no getConnection, close, sweep or shutdown is between two of
\* its awaits, every running worker is the worker of the client of exactly
\* one entry of the pool
WorkersOwnedByPool ==
  (/\ \A p \in Procs : pc[p] \in {"idle", "holding"}
   /\ sweepPc = "idle"
   /\ shutPc # "closing")
  => \A c \in Running :
       Cardinality({i \in 1..Len(connections) : connections[i].client = c}) = 1

\* C39: while no CredentialManager call is running, every active record has
\* its secret file at the recorded path
ActiveRecordHasFile ==
  (\A cp \in CredCalls : credPc[cp] = "idle")
  => \A r \in rows : r.is_active => files[r.credentials_path].exists

\* C40: once the disconnect route has closed the connection of a key and
\* deleted its credentials, the pool has no entry of the key and no
\* getConnection of the key returns a client
DisconnectedStaysOut ==
  /\ []((/\ RowsOf(rows, "u1", "google-analytics") = {}
         /\ \A cp \in CredCalls : credPc[cp] = "idle")
        => ~MapHas(connections, getConnectionKey("u1", "google-analytics")))
  /\ [][(/\ RowsOf(rows, "u1", "google-analytics") = {}
         /\ \A cp \in CredCalls : credPc[cp] = "idle")
        => \A p \in 1..NumCallers : pc[p] # "holding" => pc'[p] # "holding"]_vars

====
